---- MODULE Spec2Model ----
(***************************************************************************)
(* Synchronization engine of xrplto/589-backend.                           *)
(*                                                                         *)
(* Spec / FairSpec : the continuous AMM updater (src/unnamed/part_000):    *)
(*   main loop with the isUpdating flag, updateAMMInfo, processTokens      *)
(*   (work queue), processToken, getAMMInfo (endpoint failover) and        *)
(*   fetchAMMInfo (one WebSocket attempt with its 10 s timer).             *)
(* BatchSpec : the fixed-batch AMM updater (src/unnamed/part_001).         *)
(* RatesSpec : the rate updater (src/updateData.js): main, the setInterval *)
(*   callback and updatePricesAndMarketCaps with its batches.              *)
(*                                                                         *)
(* One step of the model is one macrotask of the Node.js event loop: an    *)
(* event handler together with every promise continuation (microtask) it   *)
(* triggers, up to the next await of something that is really pending.     *)
(***************************************************************************)
EXTENDS Integers, Sequences, FiniteSets, TLC

\* ------------------------------------------------------------------ bounds
MaxTokens == 2        \* documents with an ammAddress in the collection
MaxSlots == 2         \* invocations of the cycle function the model can hold at once
MaxReqs == 2          \* concurrent calls of fetchWithRetry
MaxJobs == 6          \* jobs handed to a limiter at once

\* ------------------------------------------------------- program constants
concurrency == 50             \* processTokens: number of workers
TIMEOUT_MS == 10000           \* fetchAMMInfo: setTimeout(..., 10000)
XRPL_MAX_CONNECTIONS == 5     \* Bottleneck maxConcurrent for xrplcluster.com
KOTH_THRESHOLD == 58900       \* processToken: new BigNumber(58900)
DROPS_PER_XRP == 1000000      \* processToken: dividedBy(1e6)

XRPL_WSS_LIST ==
  << "wss://s2.ripple.com/", "wss://s1.ripple.com/", "wss://xrplcluster.com/" >>

\* selectedWSS.includes("xrplcluster.com")
IsRateLimited(ep) == XRPL_WSS_LIST[ep] = "wss://xrplcluster.com/"

Tokens == 1..MaxTokens
Slots == 1..MaxSlots
Endpoints == 1..Len(XRPL_WSS_LIST)

\* The model's clock advances in steps of TickMs; an attempt's age is capped.
TickMs == TIMEOUT_MS
MaxElapsed == 2 * TIMEOUT_MS

Min(a, b) == IF a < b THEN a ELSE b

\* ------------------------------------------------------------------ inputs
\* What a ledger node can send as the one message of an attempt.
\*   "garbage"  : not JSON
\*   "noresult" : JSON without a `result` field, e.g. {"error": ...}
\*   "noamm"    : {"result": {...}} without `amm`
\*   "badamm"   : {"result": {"amm": {"amount": ...}}} without amount2
\*   "amm"      : {"result": {"amm": {"amount": ..., "amount2": {"value": ...}}}}
Data == {"garbage", "noresult", "noamm", "badamm", "amm"}

Parses(d) == d # "garbage"
HasResult(d) == d \in {"noamm", "badamm", "amm"}
HasAmm(d) == d \in {"badamm", "amm"}
HasAmount2(d) == d = "amm"

\* Reserves carried by the "amm" message: 2 XRP (in drops) and 1 token.
AmmAmount == [amount |-> 2 * DROPS_PER_XRP, value |-> 1]

\* totalSupply of the documents (0: the field is absent).
InitialSupply(t) == IF t = 1 THEN 29450 ELSE IF t = 2 THEN 0 ELSE 29449

\* kingOfTheHill of a document is kept as its timestamp: 0 when the field is
\* absent.  { label, timestamp: new Date() }: the timestamp of an object created
\* now differs from the one a document already stores.
NewStamp(stored) == IF stored = 1 THEN 2 ELSE 1

\* $set with updateFields.kingOfTheHill: what the document holds afterwards.
KothWritten(field, snapStamp, stored) ==
  IF field = "new" THEN NewStamp(stored)
  ELSE IF field = "snapshot" THEN snapStamp ELSE stored

\* Error messages of the code.
ErrTimeout == "WebSocket connection timeout"
ErrInvalid == "Invalid response format"
ErrParse == "Failed to parse WebSocket message"
ErrNode == "Node error"
ErrAllFailed == "Failed to get AMM info from all available nodes"
ErrType == "TypeError"
ErrWrite == "MongoError"

VARIABLES
  isUpdating,   \* part_000: let isUpdating
  cached,       \* part_000: cachedClient && cachedDb
  store,        \* the collection: token -> document
  cyc,          \* slot -> state of one invocation of updateAMMInfo
  tok,          \* slot -> token -> state of processToken(token) in that invocation
  limiterRunning, \* jobs the Bottleneck limiter has dispatched and not finished
  mainPc,       \* where main() is: loop | crashed (uncaught exception)
  rateLimit,    \* updateData.js: let rateLimit = { limit, remaining, reset }
  now,          \* Date.now(), ms since the module was loaded
  req,          \* call -> state of one call of fetchWithRetry(url)
  job,          \* job -> state of one job given to limiter.schedule
  limiter,      \* updateData.js: the settings of `limiter` that change
  priceHistory, \* part_002: token.priceHistory as stored in the collection
  clock,        \* part_002: Date.now(), in hours
  calc,         \* a pure function of the metrics: its arguments and its result
  workq,        \* part_000 processTokens: the queue, the workers, the tokens
  batchq,       \* part_001 processTokens: the loop over the batches, the tokens
  conn          \* updateData.js: cachedClient and the calls of connectToDatabase

vars == << isUpdating, cached, store, cyc, tok, limiterRunning, mainPc,
          rateLimit, now, req, job, limiter, priceHistory, clock, calc,
          workq, batchq, conn >>

\* The state of updateData.js's request path, left alone by the updaters above.
fetchVars == << rateLimit, now, req, job, limiter >>

\* The price history and the metric functions, left alone by all of the above.
calcVars == << priceHistory, clock, calc >>

\* processTokens and connectToDatabase taken on their own, left alone by all of
\* the above.
poolVars == << workq, batchq, conn >>

\* ------------------------------------------------------------ record shapes
FreshTok ==
  [ pc |-> "queued",      \* queued | limiter | connecting | open | writing | done
    ep |-> 0,             \* index in XRPL_WSS_LIST of the current attempt
    elapsed |-> 0,        \* ms since the current attempt's WebSocket was created
    timer |-> FALSE,      \* the attempt's setTimeout is armed
    attempts |-> << >>,   \* endpoints fetchAMMInfo was called on, in call order
    nodeErr |-> "none",   \* last message of console.error(`Error with node ...`)
    result |-> "none",    \* what getAMMInfo returned
    from |-> 0,           \* endpoint whose message produced the result
    koth |-> "absent",    \* updateFields.kingOfTheHill: absent | snapshot | new
    log |-> "none",       \* none | updated | warn | error
    errMsg |-> "none",    \* error.message logged by processToken's catch
    promise |-> "none" ]  \* processToken's promise: none | pending | resolved | rejected

FreshCyc ==
  [ pc |-> "idle",        \* idle | connect | find | tokens
    queue |-> << >>,      \* processTokens: const queue = [...tokens]
    workers |-> 0,        \* workers that have not returned yet
    snap |-> [t \in Tokens |-> [totalSupply |-> 0, kingOfTheHill |-> 0]],
    outcome |-> "none" ]  \* none | ok | caught : how the last invocation ended

Running(c) == cyc[c].pc # "idle"
RunningSlots == {c \in Slots : Running(c)}

\* -------------------------------------------- updateData.js: request path
DEFAULT_LIMIT == 600          \* rateLimit.limit, rateLimit.remaining at load
DEFAULT_RESET_MS == 3600000   \* rateLimit.reset = Date.now() + 60 * 60 * 1000
retries == 3                  \* fetchWithRetry(url, retries = 3, ...)
delayMs == 1000               \* fetchWithRetry(url, ..., delayMs = 1000)
maxConcurrent == 5            \* limiter: maxConcurrent: 5
reservoirRefreshInterval == 60000   \* limiter: reservoirRefreshInterval: 60 * 1000

Reqs == 1..MaxReqs
Jobs == 1..MaxJobs

\* parseInt of an absent or unparseable header.
NaN == -1000000
isNaN(x) == x = NaN

FreshReq ==
  [ pc |-> "idle",        \* idle | rlWait | fetching | wait429 | backoff |
                          \* returned | threw | undefined
    attempt |-> 0,        \* the for loop's attempt
    wake |-> 0,           \* when the pending wait(ms) resolves (0: no wait pending)
    gate |-> 0 ]          \* while the request is out: rateLimit.reset its
                          \* handleRateLimiting() waited for (0: it did not wait)

\* The request path before any request: the module was just loaded.
FetchIdle ==
  /\ rateLimit = [limit |-> DEFAULT_LIMIT, remaining |-> DEFAULT_LIMIT,
                  reset |-> DEFAULT_RESET_MS]
  /\ now = 0
  /\ req = [r \in Reqs |-> FreshReq]
  /\ job = [j \in Jobs |-> "idle"]
  /\ limiter = [reservoir |-> DEFAULT_LIMIT, reservoirRefreshAmount |-> DEFAULT_LIMIT]
\* No price was recorded and no metric is being computed.
CalcIdle ==
  /\ priceHistory = << >>
  /\ clock = 0
  /\ calc = [fn |-> "none"]

\* processTokens and connectToDatabase are not looked at.
PoolIdle ==
  /\ workq = [pc |-> "none"]
  /\ batchq = [pc |-> "none"]
  /\ conn = [pc |-> "none"]

Init ==
  /\ isUpdating = FALSE
  /\ cached = FALSE
  /\ store = [t \in Tokens |->
               [totalSupply |-> InitialSupply(t), kingOfTheHill |-> 0,
                ammInfo |-> FALSE]]
  /\ cyc = [c \in Slots |-> FreshCyc]
  /\ tok = [c \in Slots |-> [t \in Tokens |-> FreshTok]]
  /\ limiterRunning = 0
  /\ mainPc = "loop"
  /\ FetchIdle
  /\ CalcIdle
  /\ PoolIdle

\* ------------------------------------------------- fetchAMMInfo / getAMMInfo
\* fetchAMMInfo(selectedWSS, ...): new WebSocket(selectedWSS) and the 10 s timer.
fetchAMMInfo(tk, ep) ==
  [tk EXCEPT !.pc = "connecting", !.ep = ep, !.elapsed = 0, !.timer = TRUE,
             !.attempts = Append(@, ep)]

\* Mutant of getAMMInfoTry: every endpoint is called directly.
getAMMInfoTryDirect(tk, ep) == fetchAMMInfo(tk, ep)

\* The body of getAMMInfo's for loop for endpoint ep: xrplcluster.com goes through
\* the limiter (the job waits there until it is dispatched), the others directly.
getAMMInfoTry(tk, ep) ==
  IF IsRateLimited(ep)
  THEN [tk EXCEPT !.pc = "limiter", !.ep = ep, !.elapsed = 0, !.timer = FALSE]
  ELSE fetchAMMInfo(tk, ep)

\* Mutant of NextEndpoint: the loop skips an endpoint.
NextEndpointSkip(ep) == ep + 2

\* for (const selectedWSS of XRPL_WSS_LIST): the endpoint tried after ep.
NextEndpoint(ep) == ep + 1

\* Mutant of ProcessTokenCatch: the catch block rethrows, so processToken rejects.
ProcessTokenRethrow(tk, msg) ==
  [tk EXCEPT !.pc = "done", !.elapsed = 0, !.timer = FALSE,
             !.log = "error", !.errMsg = msg, !.promise = "rejected"]

\* processToken's catch block: the error is logged and processToken returns.
ProcessTokenCatch(tk, msg) ==
  [tk EXCEPT !.pc = "done", !.elapsed = 0, !.timer = FALSE,
             !.log = "error", !.errMsg = msg, !.promise = "resolved"]

\* The error getAMMInfo throws after the loop: a fixed message.
AllFailedError(lastErr) == ErrAllFailed

\* getAMMInfo's catch block for a failed attempt, then the next loop iteration;
\* after the last endpoint the throw, which processToken's catch receives.
getAMMInfoCatch(tk, err) ==
  LET tk1 == [tk EXCEPT !.nodeErr = err, !.elapsed = 0, !.timer = FALSE]
  IN  IF NextEndpoint(tk.ep) \in Endpoints
      THEN getAMMInfoTry(tk1, NextEndpoint(tk.ep))
      ELSE ProcessTokenCatch(tk1, AllFailedError(err))

\* ws.on("message"): TRUE when the handler resolves the attempt with response.result.
MessageResolves(d) == Parses(d) /\ HasResult(d)

\* ws.on("message"): the error the handler rejects with otherwise.
MessageError(d) == IF Parses(d) THEN ErrInvalid ELSE ErrParse

\* ------------------------------------------------------------- processToken
\* Mutant of MarketCapReaches: the threshold itself does not count.
MarketCapReachesStrict(amm, supply) ==
  /\ supply # 0
  /\ (amm.amount \div DROPS_PER_XRP) * supply > KOTH_THRESHOLD * amm.value

\* marketCapBN.isGreaterThanOrEqualTo(threshold) with xrpAmount = amount / 1e6,
\* spotPrice = xrpAmount / tokenAmount and marketCap = spotPrice * totalSupply
\* (0 when totalSupply is absent). The inputs carry whole XRP amounts, so the
\* division by 1e6 is exact, and the comparison is made without the second division.
MarketCapReaches(amm, supply) ==
  /\ supply # 0
  /\ (amm.amount \div DROPS_PER_XRP) * supply >= KOTH_THRESHOLD * amm.value

\* Mutant of KingOfTheHillField: the status already present is not looked at.
KingOfTheHillFieldAlways(snapTok, amm) ==
  IF MarketCapReaches(amm, snapTok.totalSupply)
  THEN "new"
  ELSE IF snapTok.kingOfTheHill # 0 THEN "snapshot" ELSE "absent"

\* let kingOfTheHill = token.kingOfTheHill; if (marketCap >= threshold && !kingOfTheHill) ...
\* if (kingOfTheHill) updateFields.kingOfTheHill = kingOfTheHill: the object just
\* created ("new"), the one of the snapshot, or no such field.
KingOfTheHillField(snapTok, amm) ==
  IF MarketCapReaches(amm, snapTok.totalSupply) /\ snapTok.kingOfTheHill = 0
  THEN "new"
  ELSE IF snapTok.kingOfTheHill # 0 THEN "snapshot" ELSE "absent"

\* processToken after getAMMInfo returned the result of message d.
processTokenResult(tk, snapTok, d) ==
  LET tk1 == [tk EXCEPT !.result = d, !.from = tk.ep, !.elapsed = 0, !.timer = FALSE]
  IN  IF ~HasAmm(d)
      THEN [tk1 EXCEPT !.pc = "done", !.log = "warn", !.promise = "resolved"]
      ELSE IF ~HasAmount2(d)
      THEN ProcessTokenCatch(tk1, ErrType)
      ELSE [tk1 EXCEPT !.pc = "writing", !.koth = KingOfTheHillField(snapTok, AmmAmount)]

\* ------------------------------------------- processTokens / updateAMMInfo
\* processToken(token, collection) called by a worker: runs synchronously into
\* getAMMInfo's first attempt.
processTokenCall == getAMMInfoTry([FreshTok EXCEPT !.promise = "pending"], 1)

\* How an invocation of updateAMMInfo ends: the try block completes or the catch
\* block logs; either way the promise resolves and main's .then clears the flag.
CycleEnd(cy, outcome) == [cy EXCEPT !.pc = "idle", !.outcome = outcome]

\* What follows, in the same macrotask, once tok[c][t] has become tk1: nothing
\* if processToken is still pending; otherwise the worker's loop (next token of
\* the queue or return), Promise.all, updateAMMInfo's end and main's .then.
AfterToken(c, t, tk1) ==
  LET toks1 == [tok[c] EXCEPT ![t] = tk1]
      cy == cyc[c]
  IN  IF tk1.promise = "pending"
      THEN /\ tok' = [tok EXCEPT ![c] = toks1]
           /\ UNCHANGED << cyc, isUpdating >>
      ELSE IF tk1.promise = "rejected"
      THEN \* the worker rejects, so Promise.all rejects: updateAMMInfo's catch
           /\ tok' = [tok EXCEPT ![c] = toks1]
           /\ cyc' = [cyc EXCEPT ![c] =
                        IF cy.pc = "tokens"
                        THEN CycleEnd([cy EXCEPT !.workers = @ - 1], "caught")
                        ELSE [cy EXCEPT !.workers = @ - 1]]
           /\ isUpdating' = IF cy.pc = "tokens" THEN FALSE ELSE isUpdating
      ELSE IF cy.queue # << >>
      THEN \* while (queue.length > 0) { const token = queue.shift(); ... }
           /\ tok' = [tok EXCEPT ![c] = [toks1 EXCEPT ![Head(cy.queue)] = processTokenCall]]
           /\ cyc' = [cyc EXCEPT ![c].queue = Tail(cy.queue)]
           /\ UNCHANGED isUpdating
      ELSE \* the worker returns; Promise.all resolves with the last worker
           /\ tok' = [tok EXCEPT ![c] = toks1]
           /\ cyc' = [cyc EXCEPT ![c] =
                        IF cy.workers = 1 /\ cy.pc = "tokens"
                        THEN CycleEnd([cy EXCEPT !.workers = 0], "ok")
                        ELSE [cy EXCEPT !.workers = @ - 1]]
           /\ isUpdating' = IF cy.workers = 1 /\ cy.pc = "tokens" THEN FALSE ELSE isUpdating

\* The limiter's job for an attempt on a rate-limited endpoint ends with the attempt.
LimiterRelease(tk) ==
  limiterRunning' = IF IsRateLimited(tk.ep) THEN limiterRunning - 1 ELSE limiterRunning

\* ------------------------------ the fixed-batch AMM updater (part_001)
MAX_CONNECTIONS == 5          \* part_001: batchSize of processTokens

\* part_001 getAMMInfo, the loop body for endpoint ep: before the rate-limited
\* endpoint it sleeps MESSAGE_INTERVAL, then (as for the others) creates the
\* WebSocket and the 10 s timer inline.
getAMMInfoTryBatch(tk, ep) ==
  IF IsRateLimited(ep)
  THEN [tk EXCEPT !.pc = "sleep", !.ep = ep, !.elapsed = 0, !.timer = FALSE]
  ELSE fetchAMMInfo(tk, ep)

\* part_001 getAMMInfo's catch block and what follows it.
getAMMInfoCatchBatch(tk, err) ==
  LET tk1 == [tk EXCEPT !.nodeErr = err, !.elapsed = 0, !.timer = FALSE]
  IN  IF NextEndpoint(tk.ep) \in Endpoints
      THEN getAMMInfoTryBatch(tk1, NextEndpoint(tk.ep))
      ELSE ProcessTokenCatch(tk1, AllFailedError(err))

\* part_001 processToken called by batch.map: runs into getAMMInfo's first attempt.
processTokenCallBatch == getAMMInfoTryBatch([FreshTok EXCEPT !.promise = "pending"], 1)

\* part_001: what follows once tok[c][t] has become tk1. Promise.all(batch.map(...))
\* settles with the last token of the batch (or with the first rejection), then
\* processTokens returns (the collection holds at most MAX_CONNECTIONS documents,
\* so there is one batch) and updateAMMInfo ends; main's loop awaits it.
AfterTokenBatch(c, t, tk1) ==
  LET cy == cyc[c]
      last == cy.workers = 1 /\ cy.pc = "tokens"
      ends == cy.pc = "tokens" /\ (tk1.promise = "rejected" \/ (tk1.promise = "resolved" /\ last))
  IN  /\ tok' = [tok EXCEPT ![c][t] = tk1]
      /\ cyc' = [cyc EXCEPT ![c] =
                   IF tk1.promise = "pending" THEN cy
                   ELSE IF ends
                   THEN CycleEnd([cy EXCEPT !.workers = @ - 1],
                                 IF tk1.promise = "rejected" THEN "caught" ELSE "ok")
                   ELSE [cy EXCEPT !.workers = @ - 1]]
      /\ UNCHANGED isUpdating

\* The two AMM updaters share the handlers below; v names the file:
\* "queue" is part_000 (work queue, limiter), "batch" is part_001.
Catch(v, tk, err) ==
  IF v = "queue" THEN getAMMInfoCatch(tk, err) ELSE getAMMInfoCatchBatch(tk, err)

Settle(v, c, t, tk1) ==
  IF v = "queue" THEN AfterToken(c, t, tk1) ELSE AfterTokenBatch(c, t, tk1)

Release(v, tk) ==
  IF v = "queue" THEN LimiterRelease(tk) ELSE UNCHANGED limiterRunning

\* The process is alive: no uncaught exception has ended it.
Alive == mainPc # "crashed"

\* ------------------------------------------------------------------- main
\* Mutant of MainGuard: the flag is not consulted.
MainGuardOff == TRUE

\* if (!isUpdating)
MainGuard == ~isUpdating

\* updateAMMInfo() called: connectToDatabase returns the cached handles (and the
\* find is issued) or starts MongoClient.connect.
updateAMMInfoCall(c) ==
  /\ cyc' = [cyc EXCEPT ![c] = [FreshCyc EXCEPT !.pc = IF cached THEN "find" ELSE "connect"]]
  /\ tok' = [tok EXCEPT ![c] = [t \in Tokens |-> FreshTok]]

\* One iteration of main's while (true) that finds no update running.
MainStart ==
  /\ Alive
  /\ MainGuard
  /\ \E c \in Slots :
       /\ ~Running(c)
       /\ \A d \in Slots : d < c => Running(d)
       /\ updateAMMInfoCall(c)
  /\ isUpdating' = TRUE
  /\ UNCHANGED << cached, store, limiterRunning, mainPc >>
  /\ UNCHANGED << fetchVars, calcVars, poolVars >>

\* One iteration of main's while (true) that finds an update running: nothing
\* but the setImmediate yield.
MainSkip ==
  /\ ~MainGuard
  /\ UNCHANGED vars

\* MongoClient.connect resolves.
ConnectOk(c) ==
  /\ Alive
  /\ cyc[c].pc = "connect"
  /\ cached' = TRUE
  /\ cyc' = [cyc EXCEPT ![c].pc = "find"]
  /\ UNCHANGED << isUpdating, store, tok, limiterRunning, mainPc >>
  /\ UNCHANGED << fetchVars, calcVars, poolVars >>

\* MongoClient.connect rejects: updateAMMInfo's catch.
ConnectFail(c) ==
  /\ Alive
  /\ cyc[c].pc = "connect"
  /\ cyc' = [cyc EXCEPT ![c] = CycleEnd(@, "caught")]
  /\ isUpdating' = FALSE
  /\ UNCHANGED << cached, store, tok, limiterRunning, mainPc >>
  /\ UNCHANGED << fetchVars, calcVars, poolVars >>

\* The documents find({ammAddress: ...}).toArray() returns, in collection order.
FoundTokens == [i \in 1..MaxTokens |-> i]

\* find resolves; processTokens starts its workers, each of which takes a token
\* synchronously until the queue is empty.
FindOk(c) ==
  /\ cyc[c].pc = "find"
  /\ LET list == FoundTokens
         k == Min(concurrency, Len(list))
     IN  /\ tok' = [tok EXCEPT ![c] =
                      [t \in Tokens |->
                         IF \E i \in 1..k : list[i] = t THEN processTokenCall ELSE FreshTok]]
         /\ cyc' = [cyc EXCEPT ![c] =
                      IF k = 0
                      THEN CycleEnd(@, "ok")
                      ELSE [@ EXCEPT !.pc = "tokens",
                                     !.queue = SubSeq(list, k + 1, Len(list)),
                                     !.workers = k,
                                     !.snap = [t \in Tokens |->
                                                [totalSupply |-> store[t].totalSupply,
                                                 kingOfTheHill |-> store[t].kingOfTheHill]]]]
         /\ isUpdating' = IF k = 0 THEN FALSE ELSE isUpdating
  /\ UNCHANGED << cached, store, limiterRunning, mainPc >>
  /\ UNCHANGED << fetchVars, calcVars, poolVars >>

\* find rejects: updateAMMInfo's catch.
FindFail(c) ==
  /\ Alive
  /\ cyc[c].pc = "find"
  /\ cyc' = [cyc EXCEPT ![c] = CycleEnd(@, "caught")]
  /\ isUpdating' = FALSE
  /\ UNCHANGED << cached, store, tok, limiterRunning, mainPc >>
  /\ UNCHANGED << fetchVars, calcVars, poolVars >>

\* Mutant of MayDispatch: the limiter does not count its running jobs.
MayDispatchAlways(running, cap) == TRUE

\* Bottleneck's maxConcurrent: a queued job is started only while fewer than
\* `cap` jobs are running.
MayDispatch(running, cap) == running < cap

\* ---------------------------------------------------- one WebSocket attempt
\* The limiter dispatches the job: fetchAMMInfo runs.
LimiterDispatch(c, t) ==
  /\ tok[c][t].pc = "limiter"
  /\ MayDispatch(limiterRunning, XRPL_MAX_CONNECTIONS)
  /\ limiterRunning' = limiterRunning + 1
  /\ tok' = [tok EXCEPT ![c][t] = fetchAMMInfo(@, @.ep)]
  /\ UNCHANGED << isUpdating, cached, store, cyc, mainPc >>
  /\ UNCHANGED << fetchVars, calcVars, poolVars >>

\* ws.on("open"): clearTimeout(timeout); ws.send(request).
WsOpen(c, t) ==
  /\ Alive
  /\ tok[c][t].pc = "connecting"
  /\ tok' = [tok EXCEPT ![c][t] = [@ EXCEPT !.pc = "open", !.timer = FALSE]]
  /\ UNCHANGED << isUpdating, cached, store, cyc, limiterRunning, mainPc >>
  /\ UNCHANGED << fetchVars, calcVars, poolVars >>

\* ws.on("message") with data d.
WsMessage(c, t, d) ==
  /\ tok[c][t].pc = "open"
  /\ AfterToken(c, t, IF MessageResolves(d)
                      THEN processTokenResult(tok[c][t], cyc[c].snap[t], d)
                      ELSE getAMMInfoCatch(tok[c][t], MessageError(d)))
  /\ LimiterRelease(tok[c][t])
  /\ UNCHANGED << cached, store, mainPc >>
  /\ UNCHANGED << fetchVars, calcVars, poolVars >>

\* ws.on("error"): clearTimeout(timeout); ws.close(); reject.
WsError(v, c, t) ==
  /\ Alive
  /\ tok[c][t].pc \in {"connecting", "open"}
  /\ Settle(v, c, t, Catch(v, tok[c][t], ErrNode))
  /\ Release(v, tok[c][t])
  /\ UNCHANGED << cached, store, mainPc >>
  /\ UNCHANGED << fetchVars, calcVars, poolVars >>

\* The setTimeout callback: ws.close(); reject.
WsTimeout(v, c, t) ==
  /\ Alive
  /\ tok[c][t].timer
  /\ tok[c][t].elapsed >= TIMEOUT_MS
  /\ Settle(v, c, t, Catch(v, tok[c][t], ErrTimeout))
  /\ Release(v, tok[c][t])
  /\ UNCHANGED << cached, store, mainPc >>
  /\ UNCHANGED << fetchVars, calcVars, poolVars >>

\* collection.updateOne resolves: the $set of updateFields is applied.
WriteOk(v, c, t) ==
  /\ Alive
  /\ tok[c][t].pc = "writing"
  /\ store' = [store EXCEPT ![t] =
                 [@ EXCEPT !.ammInfo = TRUE,
                           !.kingOfTheHill =
                              KothWritten(tok[c][t].koth, cyc[c].snap[t].kingOfTheHill, @)]]
  /\ Settle(v, c, t, [tok[c][t] EXCEPT !.pc = "done", !.log = "updated",
                                         !.promise = "resolved"])
  /\ UNCHANGED << cached, limiterRunning, mainPc >>
  /\ UNCHANGED << fetchVars, calcVars, poolVars >>

\* collection.updateOne rejects: processToken's catch.
WriteFail(v, c, t) ==
  /\ Alive
  /\ tok[c][t].pc = "writing"
  /\ Settle(v, c, t, ProcessTokenCatch(tok[c][t], ErrWrite))
  /\ UNCHANGED << cached, store, limiterRunning, mainPc >>
  /\ UNCHANGED << fetchVars, calcVars, poolVars >>

\* ------------------------------------------------------------------ clock
Pending(tk) == tk.pc \in {"connecting", "open"}

\* TickMs pass. A timer that is due fires before more time passes.
Tick ==
  /\ Alive
  /\ \A c \in Slots, t \in Tokens : ~(tok[c][t].timer /\ tok[c][t].elapsed >= TIMEOUT_MS)
  /\ \E c \in Slots, t \in Tokens : Pending(tok[c][t]) /\ tok[c][t].elapsed < MaxElapsed
  /\ tok' = [c \in Slots |-> [t \in Tokens |->
               IF Pending(tok[c][t])
               THEN [tok[c][t] EXCEPT !.elapsed = Min(@ + TickMs, MaxElapsed)]
               ELSE tok[c][t]]]
  /\ UNCHANGED << isUpdating, cached, store, cyc, limiterRunning, mainPc >>
  /\ UNCHANGED << fetchVars, calcVars, poolVars >>

Next ==
  \/ MainStart
  \/ MainSkip
  \/ \E c \in Slots : ConnectOk(c)
  \/ \E c \in Slots : ConnectFail(c)
  \/ \E c \in Slots : FindOk(c)
  \/ \E c \in Slots : FindFail(c)
  \/ \E c \in Slots, t \in Tokens : LimiterDispatch(c, t)
  \/ \E c \in Slots, t \in Tokens : WsOpen(c, t)
  \/ \E c \in Slots, t \in Tokens, d \in Data : WsMessage(c, t, d)
  \/ \E c \in Slots, t \in Tokens : WsError("queue", c, t)
  \/ \E c \in Slots, t \in Tokens : WsTimeout("queue", c, t)
  \/ \E c \in Slots, t \in Tokens : WriteOk("queue", c, t)
  \/ \E c \in Slots, t \in Tokens : WriteFail("queue", c, t)
  \/ Tick

Spec == Init /\ [][Next]_vars

\* --------------------------------- part_001: main, processTokens, handlers
\* main: while (true) { await updateAMMInfo(); } -- the next call is made when
\* the previous one has resolved.
BatchMainStart ==
  /\ Alive
  /\ ~Running(1)
  /\ updateAMMInfoCall(1)
  /\ UNCHANGED << isUpdating, cached, store, limiterRunning, mainPc >>
  /\ UNCHANGED << fetchVars, calcVars, poolVars >>

\* find resolves; processTokens maps processToken over the first batch.
BatchFindOk(c) ==
  /\ Alive
  /\ cyc[c].pc = "find"
  /\ Len(FoundTokens) <= MAX_CONNECTIONS
  /\ LET list == FoundTokens
         k == Min(MAX_CONNECTIONS, Len(list))
     IN  /\ tok' = [tok EXCEPT ![c] =
                      [t \in Tokens |->
                         IF \E i \in 1..k : list[i] = t THEN processTokenCallBatch ELSE FreshTok]]
         /\ cyc' = [cyc EXCEPT ![c] =
                      IF k = 0
                      THEN CycleEnd(@, "ok")
                      ELSE [@ EXCEPT !.pc = "tokens",
                                     !.queue = SubSeq(list, k + 1, Len(list)),
                                     !.workers = k,
                                     !.snap = [t \in Tokens |->
                                                [totalSupply |-> store[t].totalSupply,
                                                 kingOfTheHill |-> store[t].kingOfTheHill]]]]
  /\ UNCHANGED << isUpdating, cached, store, limiterRunning, mainPc >>
  /\ UNCHANGED << fetchVars, calcVars, poolVars >>

\* The MESSAGE_INTERVAL sleep before the rate-limited endpoint is over.
SleepDone(c, t) ==
  /\ Alive
  /\ tok[c][t].pc = "sleep"
  /\ tok' = [tok EXCEPT ![c][t] = fetchAMMInfo(@, @.ep)]
  /\ UNCHANGED << isUpdating, cached, store, cyc, limiterRunning, mainPc >>
  /\ UNCHANGED << fetchVars, calcVars, poolVars >>

\* part_001 ws.on("message"): JSON.parse(data) outside any try (a throw in the
\* listener is an uncaught exception), then resolve(response.result) whatever
\* response.result is.
BatchWsMessage(c, t, d) ==
  /\ Alive
  /\ tok[c][t].pc = "open"
  /\ IF Parses(d)
     THEN /\ AfterTokenBatch(c, t, processTokenResult(tok[c][t], cyc[c].snap[t], d))
          /\ UNCHANGED mainPc
     ELSE /\ mainPc' = "crashed"
          /\ UNCHANGED << tok, cyc, isUpdating >>
  /\ UNCHANGED << cached, store, limiterRunning >>
  /\ UNCHANGED << fetchVars, calcVars, poolVars >>

BatchNext ==
  \/ BatchMainStart
  \/ \E c \in Slots : ConnectOk(c)
  \/ \E c \in Slots : ConnectFail(c)
  \/ \E c \in Slots : BatchFindOk(c)
  \/ \E c \in Slots : FindFail(c)
  \/ \E c \in Slots, t \in Tokens : SleepDone(c, t)
  \/ \E c \in Slots, t \in Tokens : WsOpen(c, t)
  \/ \E c \in Slots, t \in Tokens, d \in Data : BatchWsMessage(c, t, d)
  \/ \E c \in Slots, t \in Tokens : WsError("batch", c, t)
  \/ \E c \in Slots, t \in Tokens : WsTimeout("batch", c, t)
  \/ \E c \in Slots, t \in Tokens : WriteOk("batch", c, t)
  \/ \E c \in Slots, t \in Tokens : WriteFail("batch", c, t)
  \/ Tick

\* The fixed-batch AMM updater of part_001.
BatchSpec == Init /\ [][BatchNext]_vars

\* The scheduling the runtime guarantees: the event loop runs main's iterations,
\* timers fire, time passes, the limiter dispatches, and the record store answers
\* every call (the driver has its own timeouts). Nothing is assumed of the ledger
\* nodes: WsOpen, WsMessage and WsError are theirs.
FairSpec ==
  /\ Spec
  /\ WF_vars(MainStart)
  /\ WF_vars(Tick)
  /\ WF_vars(\E c \in Slots : ConnectOk(c) \/ ConnectFail(c))
  /\ WF_vars(\E c \in Slots : FindOk(c) \/ FindFail(c))
  /\ WF_vars(\E c \in Slots, t \in Tokens : LimiterDispatch(c, t))
  /\ WF_vars(\E c \in Slots, t \in Tokens : WsTimeout("queue", c, t))
  /\ WF_vars(\E c \in Slots, t \in Tokens : WriteOk("queue", c, t) \/ WriteFail("queue", c, t))

\* =========================================================================
\* The rate updater (src/updateData.js): main runs updatePricesAndMarketCaps
\* once, then from a setInterval callback every 15 s.  The variables cyc, tok,
\* store, cached and mainPc are used with the record shapes below.
\* =========================================================================
batchSize == 50               \* updatePricesAndMarketCaps: const batchSize = 50

\* data.rate of the exchange-rate answer (0: absent or zero).
Rates == {0, 1, 2}

\* The collection find({}) returns: the documents with issuer and currencyCode
\* are the first ones of successive batches, the documents between them have
\* neither field (their mapped function returns null at once).
DocPos(t) == (t - 1) * batchSize + 1
DocCount == DocPos(MaxTokens)

\* const batches = Math.ceil(tokens.length / batchSize)
batches == (DocCount + batchSize - 1) \div batchSize

\* tokens.slice(i * batchSize, (i + 1) * batchSize), restricted to the documents
\* that pass `token.issuer && token.currencyCode`.
batchTokens(i) ==
  {t \in Tokens : i * batchSize < DocPos(t) /\ DocPos(t) <= (i + 1) * batchSize}

RateTok ==
  [ pc |-> "none",        \* none | fetching | settled : the mapped async function
    ret |-> "none",       \* none | null | update : what it returned
    marketCap |-> 0,      \* updateFields.marketCap
    koth |-> "absent",    \* updateFields.kingOfTheHill: absent | snapshot | new
    log |-> "none" ]      \* none | error : console.error of the per-token catch

RateCyc ==
  [ pc |-> "idle",        \* idle | connect | find | batch | bulkWrite
    origin |-> "none",    \* initial | interval : who called
    i |-> 0,              \* the for loop's i
    failedBatch |-> 0,    \* i + 1 of the batch whose bulkWrite rejected (0: none)
    snap |-> [t \in Tokens |-> [totalSupply |-> 0, kingOfTheHill |-> 0]],
    outcome |-> "none",   \* none | resolved | rejected : the returned promise
    cause |-> "none" ]    \* connect | find | bulkWrite : what rejected it

RatesInit ==
  /\ isUpdating = FALSE
  /\ cached = FALSE
  /\ store \in [Tokens -> [totalSupply : {0, 29450}, kingOfTheHill : {0},
                           marketCap : {0}]]
  /\ cyc = [c \in Slots |-> RateCyc]
  /\ tok = [c \in Slots |-> [t \in Tokens |-> RateTok]]
  /\ limiterRunning = 0
  /\ mainPc = "start"
  /\ FetchIdle
  /\ CalcIdle
  /\ PoolIdle

\* The next batch, from index `from` on, in which some mapped function awaits
\* (a batch of documents without issuer is done within the same step).
NextWorkBatch(from) ==
  LET cand == {j \in from..(batches - 1) : batchTokens(j) # {}}
  IN  IF cand = {} THEN batches ELSE CHOOSE j \in cand : \A k \in cand : j <= k

\* The for loop continues at index `from`: the batch's functions are called, or
\* the loop ends and the promise resolves.
RateAdvance(cy, tks, from) ==
  LET j == NextWorkBatch(from)
  IN  IF j = batches
      THEN [cy |-> [cy EXCEPT !.pc = "idle", !.i = batches, !.outcome = "resolved"],
            tk |-> tks]
      ELSE [cy |-> [cy EXCEPT !.pc = "batch", !.i = j],
            tk |-> [t \in Tokens |->
                      IF t \in batchTokens(j)
                      THEN [RateTok EXCEPT !.pc = "fetching"] ELSE tks[t]]]

\* An await outside any try rejects: so does the promise of the cycle.
RateReject(cy, cause) ==
  [cy EXCEPT !.pc = "idle", !.outcome = "rejected", !.cause = cause]

\* What the caller does when the cycle's promise settles: main awaits the
\* initial update (its catch ends main before setInterval is reached), the
\* interval callback catches and logs.
MainAfter(cy) ==
  IF cy.pc # "idle" \/ cy.origin # "initial" THEN mainPc
  ELSE IF cy.outcome = "resolved" THEN "interval" ELSE "stopped"

\* The mapped function after `data = await response.json()`.
RateResult(tk, snapTok, r) ==
  IF r # 0 /\ snapTok.totalSupply # 0
  THEN [tk EXCEPT !.pc = "settled", !.ret = "update",
                  !.marketCap = r * snapTok.totalSupply,
                  !.koth = IF r * snapTok.totalSupply >= KOTH_THRESHOLD
                              /\ snapTok.kingOfTheHill = 0
                           THEN "new" ELSE "absent"]
  ELSE [tk EXCEPT !.pc = "settled", !.ret = "null"]

\* A mapped function settled: when it was the batch's last, Promise.all
\* resolves, and bulkWrite is issued if updates.length > 0.
RateSettle(c, t, tk1) ==
  LET tks == [tok[c] EXCEPT ![t] = tk1]
      cy == cyc[c]
      updates == {u \in batchTokens(cy.i) : tks[u].ret = "update"}
  IN  IF \E u \in batchTokens(cy.i) : tks[u].pc # "settled"
      THEN [cy |-> cy, tk |-> tks]
      ELSE IF updates # {}
      THEN [cy |-> [cy EXCEPT !.pc = "bulkWrite"], tk |-> tks]
      ELSE RateAdvance(cy, tks, cy.i + 1)

\* updatePricesAndMarketCaps() called.
updatePricesAndMarketCaps(c, origin) ==
  /\ cyc' = [cyc EXCEPT ![c] =
               [RateCyc EXCEPT !.pc = IF cached THEN "find" ELSE "connect",
                               !.origin = origin]]
  /\ tok' = [tok EXCEPT ![c] = [t \in Tokens |-> RateTok]]

\* main: await updatePricesAndMarketCaps() (the initial update).
RateMainStart ==
  /\ mainPc = "start"
  /\ updatePricesAndMarketCaps(1, "initial")
  /\ mainPc' = "initial"
  /\ UNCHANGED << isUpdating, cached, store, limiterRunning >>
  /\ UNCHANGED << fetchVars, calcVars, poolVars >>

\* The setInterval callback fires (every 15 s once the initial update resolved):
\* it calls updatePricesAndMarketCaps() whatever the earlier calls are doing.
IntervalTick ==
  /\ mainPc = "interval"
  /\ \E c \in Slots :
       /\ ~Running(c)
       /\ \A d \in Slots : d < c => Running(d)
       /\ updatePricesAndMarketCaps(c, "interval")
  /\ UNCHANGED << isUpdating, cached, store, limiterRunning, mainPc >>
  /\ UNCHANGED << fetchVars, calcVars, poolVars >>

\* MongoClient.connect resolves; find is issued.
RateConnectOk(c) ==
  /\ cyc[c].pc = "connect"
  /\ cached' = TRUE
  /\ cyc' = [cyc EXCEPT ![c].pc = "find"]
  /\ UNCHANGED << isUpdating, store, tok, limiterRunning, mainPc >>
  /\ UNCHANGED << fetchVars, calcVars, poolVars >>

\* MongoClient.connect rejects.
RateConnectFail(c) ==
  /\ cyc[c].pc = "connect"
  /\ LET cy == RateReject(cyc[c], "connect")
     IN  /\ cyc' = [cyc EXCEPT ![c] = cy]
         /\ mainPc' = MainAfter(cy)
  /\ UNCHANGED << isUpdating, cached, store, tok, limiterRunning >>
  /\ UNCHANGED << fetchVars, calcVars, poolVars >>

\* find({}).toArray() resolves: the loop starts at batch 0.
RateFindOk(c) ==
  /\ cyc[c].pc = "find"
  /\ LET cy0 == [cyc[c] EXCEPT !.snap =
                   [t \in Tokens |-> [totalSupply |-> store[t].totalSupply,
                                      kingOfTheHill |-> store[t].kingOfTheHill]]]
         r == RateAdvance(cy0, tok[c], 0)
     IN  /\ cyc' = [cyc EXCEPT ![c] = r.cy]
         /\ tok' = [tok EXCEPT ![c] = r.tk]
         /\ mainPc' = MainAfter(r.cy)
  /\ UNCHANGED << isUpdating, cached, store, limiterRunning >>
  /\ UNCHANGED << fetchVars, calcVars, poolVars >>

\* find({}).toArray() rejects.
RateFindFail(c) ==
  /\ cyc[c].pc = "find"
  /\ LET cy == RateReject(cyc[c], "find")
     IN  /\ cyc' = [cyc EXCEPT ![c] = cy]
         /\ mainPc' = MainAfter(cy)
  /\ UNCHANGED << isUpdating, cached, store, tok, limiterRunning >>
  /\ UNCHANGED << fetchVars, calcVars, poolVars >>

\* limiter.schedule(() => fetchWithRetry(url)) resolves and response.json()
\* gives data.rate = r.
RateFetchOk(c, t, r) ==
  /\ cyc[c].pc = "batch"
  /\ tok[c][t].pc = "fetching"
  /\ LET s == RateSettle(c, t, RateResult(tok[c][t], cyc[c].snap[t], r))
     IN  /\ cyc' = [cyc EXCEPT ![c] = s.cy]
         /\ tok' = [tok EXCEPT ![c] = s.tk]
         /\ mainPc' = MainAfter(s.cy)
  /\ UNCHANGED << isUpdating, cached, store, limiterRunning >>
  /\ UNCHANGED << fetchVars, calcVars, poolVars >>

\* fetchWithRetry gives up, or response.json() throws: the per-token catch logs
\* and the function returns null.
RateFetchFail(c, t) ==
  /\ cyc[c].pc = "batch"
  /\ tok[c][t].pc = "fetching"
  /\ LET s == RateSettle(c, t, [tok[c][t] EXCEPT !.pc = "settled", !.ret = "null",
                                                 !.log = "error"])
     IN  /\ cyc' = [cyc EXCEPT ![c] = s.cy]
         /\ tok' = [tok EXCEPT ![c] = s.tk]
         /\ mainPc' = MainAfter(s.cy)
  /\ UNCHANGED << isUpdating, cached, store, limiterRunning >>
  /\ UNCHANGED << fetchVars, calcVars, poolVars >>

\* collection.bulkWrite(updates) resolves: the $set of every update is applied,
\* then the loop goes on.
BulkWriteOk(c) ==
  /\ cyc[c].pc = "bulkWrite"
  /\ store' = [t \in Tokens |->
                 IF t \in batchTokens(cyc[c].i) /\ tok[c][t].ret = "update"
                 THEN [store[t] EXCEPT !.marketCap = tok[c][t].marketCap,
                                       !.kingOfTheHill = KothWritten(tok[c][t].koth, 0, @)]
                 ELSE store[t]]
  /\ LET r == RateAdvance(cyc[c], tok[c], cyc[c].i + 1)
     IN  /\ cyc' = [cyc EXCEPT ![c] = r.cy]
         /\ tok' = [tok EXCEPT ![c] = r.tk]
         /\ mainPc' = MainAfter(r.cy)
  /\ UNCHANGED << isUpdating, cached, limiterRunning >>
  /\ UNCHANGED << fetchVars, calcVars, poolVars >>

\* collection.bulkWrite(updates) rejects (nothing written): the await is in no
\* try block, the loop is left and the cycle's promise rejects.
BulkWriteFail(c) ==
  /\ cyc[c].pc = "bulkWrite"
  /\ LET cy == RateReject([cyc[c] EXCEPT !.failedBatch = cyc[c].i + 1], "bulkWrite")
     IN  /\ cyc' = [cyc EXCEPT ![c] = cy]
         /\ mainPc' = MainAfter(cy)
  /\ UNCHANGED << isUpdating, cached, store, tok, limiterRunning >>
  /\ UNCHANGED << fetchVars, calcVars, poolVars >>

RatesNext ==
  \/ RateMainStart
  \/ IntervalTick
  \/ \E c \in Slots : RateConnectOk(c)
  \/ \E c \in Slots : RateConnectFail(c)
  \/ \E c \in Slots : RateFindOk(c)
  \/ \E c \in Slots : RateFindFail(c)
  \/ \E c \in Slots, t \in Tokens, r \in Rates : RateFetchOk(c, t, r)
  \/ \E c \in Slots, t \in Tokens : RateFetchFail(c, t)
  \/ \E c \in Slots : BulkWriteOk(c)
  \/ \E c \in Slots : BulkWriteFail(c)

RatesSpec == RatesInit /\ [][RatesNext]_vars

\* ===================================================================== claims
AllToks == {tok[c][t] : c \in Slots, t \in Tokens}

\* A message text mentions another when it contains it. None of the code's
\* messages contains another one, so among them this is equality.
Mentions(msg, part) == msg = part

\* C1: getAMMInfo tries the endpoints one at a time in list order (the k attempts
\* made so far are on endpoints 1..k, and an endpoint after the first is tried only
\* once a failure of the previous one was caught), and the result returned is the
\* response of the last endpoint attempted: none is attempted after a success. With
\* the third endpoint succeeding, the attempts are exactly <<1, 2, 3>>.
C1_FailoverInOrder ==
  \A tk \in AllToks :
    /\ \A i \in 1..Len(tk.attempts) : tk.attempts[i] = i
    /\ Len(tk.attempts) <= Len(XRPL_WSS_LIST)
    /\ Len(tk.attempts) > 1 => tk.nodeErr # "none"
    /\ tk.result # "none" =>
         /\ tk.from = Len(tk.attempts)
         /\ MessageResolves(tk.result)
         /\ (tk.from = 3 => tk.attempts = << 1, 2, 3 >>)

C1_Witness ==
  \E tk \in AllToks :
    tk.pc = "writing" /\ tk.from = 3 /\ tk.result = "amm" /\ tk.attempts = << 1, 2, 3 >>

\* C2: when every endpoint has failed, getAMMInfo throws (no result is returned)
\* and the error it throws names the last endpoint failure.
Exhausted(tk) ==
  tk.pc = "done" /\ tk.result = "none" /\ Len(tk.attempts) = Len(XRPL_WSS_LIST)

C2_AggregateNamesLastFailure ==
  \A tk \in AllToks :
    Exhausted(tk) => tk.log = "error" /\ Mentions(tk.errMsg, tk.nodeErr)

\* C3: an attempt that is still unsettled is never older than the 10 s timeout,
\* whether it is connecting or connected and awaiting the response.
C3_AttemptSettlesWithinTimeout ==
  \A tk \in AllToks : Pending(tk) => tk.elapsed <= TIMEOUT_MS

\* C4: a message without a `result` field is never what getAMMInfo returns: the
\* attempt fails and the failover goes on.
C4_NoResultIsFailure ==
  \A tk \in AllToks : tk.result # "none" => HasResult(tk.result)

\* C5: when an invocation that processed tokens has ended, every token was
\* processed to its end, each token whose own processing met no failure is
\* updated in the store, and the failures logged are exactly the tokens that
\* failed themselves.
OwnFailure(tk) == tk.result # "amm" \/ tk.errMsg = ErrWrite

Ended(c) == cyc[c].pc = "idle" /\ cyc[c].outcome # "none"

C5_EntityIsolation ==
  \A c \in Slots :
    (Ended(c) /\ \E t \in Tokens : tok[c][t].promise # "none") =>
      \A t \in Tokens :
        /\ tok[c][t].promise = "resolved"
        /\ OwnFailure(tok[c][t]) <=> tok[c][t].log \in {"warn", "error"}
        /\ ~OwnFailure(tok[c][t]) => tok[c][t].log = "updated" /\ store[t].ammInfo

C5_Witness ==
  \E c \in Slots :
    /\ Ended(c)
    /\ \E t \in Tokens :
         /\ tok[c][t].log = "error"
         /\ \A u \in Tokens \ {t} : tok[c][u].log = "updated" /\ store[u].ammInfo

\* The cycle has ended after one of its bulkWrite calls rejected.
WriteFailed(c) == ~Running(c) /\ cyc[c].failedBatch # 0

\* C6: a failed store write of one batch does not propagate out of
\* updatePricesAndMarketCaps and does not stop the later batches of the cycle:
\* when the cycle ends its promise is not rejected and every document with an
\* issuer was processed.
C6_WriteFailureContained ==
  \A c \in Slots :
    WriteFailed(c) =>
      /\ cyc[c].outcome # "rejected"
      /\ \A t \in Tokens : tok[c][t].pc = "settled"

\* C7: the promise of a cycle never rejects on a partial failure (a per-token
\* endpoint or parse failure, or a failed store write).
C7_CycleNeverRejectsOnPartialFailure ==
  \A c \in Slots :
    cyc[c].outcome = "rejected" => cyc[c].cause \in {"connect", "find"}

\* C8: at most one invocation of updateAMMInfo is running at any time, and one is
\* running exactly while isUpdating is set.
C8_SingleRunning ==
  /\ Cardinality(RunningSlots) <= 1
  /\ isUpdating <=> RunningSlots # {}

\* A cycle is running, after an earlier one completed and wrote the store.
C8_Witness ==
  \E c \in Slots, t \in Tokens :
    /\ isUpdating
    /\ cyc[c].pc = "tokens"
    /\ tok[c][t].promise = "pending"
    /\ store[t].ammInfo

\* C9: in the timer-driven loop two invocations of updatePricesAndMarketCaps
\* are never running at the same time.
C9_NoOverlappingCycles ==
  \A c, d \in Slots : Running(c) /\ Running(d) => c = d

\* C10: every cycle that starts completes (isUpdating returns to FALSE) and a
\* further cycle is then started.
C10_CyclesCompleteAndRestart ==
  /\ isUpdating ~> ~isUpdating
  /\ ~isUpdating ~> isUpdating

\* The rate updater with the scheduling the event loop guarantees: main runs,
\* and a timer callback that is due is eventually called.
RatesFairSpec ==
  /\ RatesSpec
  /\ WF_vars(RateMainStart)
  /\ WF_vars(IntervalTick)

\* A cycle has ended by a cycle-level failure: the store could not be reached.
CycleLevelFailed ==
  \E c \in Slots :
    ~Running(c) /\ cyc[c].outcome = "rejected" /\ cyc[c].cause \in {"connect", "find"}

\* C11: after a cycle-level failure of any cycle, the initial one included, the
\* loop goes on and another cycle is attempted.
C11_LoopSurvivesCycleFailure ==
  CycleLevelFailed ~> (\E c \in Slots : Running(c))

\* C12: across any interleaving of cycles over the same store, a kingOfTheHill
\* that is set is never cleared and its timestamp never overwritten.
C12_KothNeverOverwritten ==
  [][\A t \in Tokens :
       store[t].kingOfTheHill # 0 => store'[t].kingOfTheHill = store[t].kingOfTheHill]_vars

\* The step is the resolution of collection.updateOne of processToken(t) in
\* invocation c.
Writes(c, t) == tok[c][t].pc = "writing" /\ tok'[c][t].log = "updated"

\* C13: a per-entity update applied to the record an earlier update wrote (its
\* snapshot is what the store holds) leaves an already-set kingOfTheHill and
\* its timestamp as they are.
C13_KothIdempotent ==
  [][\A c \in Slots, t \in Tokens :
       ( /\ Writes(c, t)
         /\ cyc[c].snap[t].kingOfTheHill # 0
         /\ cyc[c].snap[t].kingOfTheHill = store[t].kingOfTheHill )
       => store'[t].kingOfTheHill = cyc[c].snap[t].kingOfTheHill]_vars

\* A second update of a record whose kingOfTheHill the first one set has been
\* written.
C13_Witness ==
  \E c \in Slots, t \in Tokens :
    /\ tok[c][t].log = "updated"
    /\ tok[c][t].koth = "snapshot"
    /\ store[t].kingOfTheHill # 0

\* marketCap = spotPrice * totalSupply of the reserves AmmAmount (0 without
\* totalSupply), in XRP.
SpecMarketCap(supply) ==
  ((AmmAmount.amount \div DROPS_PER_XRP) * supply) \div AmmAmount.value

\* C14: an update sets kingOfTheHill exactly when its market cap is >= 58900
\* and its snapshot carries none (so not with the zero market cap of an absent
\* totalSupply), and no step clears a kingOfTheHill.
C14_KothSetExactlyAtThreshold ==
  [][\A t \in Tokens :
       /\ (store[t].kingOfTheHill = 0 /\ store'[t].kingOfTheHill # 0)
            <=> \E c \in Slots :
                  /\ Writes(c, t)
                  /\ SpecMarketCap(cyc[c].snap[t].totalSupply) >= 58900
                  /\ cyc[c].snap[t].kingOfTheHill = 0
       /\ store[t].kingOfTheHill # 0 => store'[t].kingOfTheHill # 0]_vars

\* One record was written with kingOfTheHill set, another (no totalSupply, market
\* cap 0) was written without.
C14_Witness ==
  \E c \in Slots, t, u \in Tokens :
    /\ tok[c][t].log = "updated" /\ tok[c][t].koth = "new" /\ store[t].kingOfTheHill # 0
    /\ tok[c][u].log = "updated" /\ tok[c][u].koth = "absent" /\ store[u].kingOfTheHill = 0

\* =========================================================================
\* The continuous AMM updater next to another writer of the same collection
\* (livePrice.js, updateData.js, an operator): the other writer replaces the
\* kingOfTheHill object of a document.
\* =========================================================================
ManualStamp == 3

ExternalEdit(t) ==
  /\ store[t].kingOfTheHill \in {1, 2}
  /\ store' = [store EXCEPT ![t].kingOfTheHill = ManualStamp]
  /\ UNCHANGED << isUpdating, cached, cyc, tok, limiterRunning, mainPc >>
  /\ UNCHANGED << fetchVars, calcVars, poolVars >>

EditNext ==
  \/ Next
  \/ \E t \in Tokens : ExternalEdit(t)

EditSpec == Init /\ [][EditNext]_vars

\* C15: the write of processToken changes only the fields this update computed:
\* totalSupply, and a kingOfTheHill this update did not create, stay as the
\* store holds them, also when another writer changed them after the snapshot.
C15_WriteMergesOnlyComputedFields ==
  [][\A c \in Slots, t \in Tokens :
       Writes(c, t) =>
         /\ store'[t].totalSupply = store[t].totalSupply
         /\ tok[c][t].koth # "new" => store'[t].kingOfTheHill = store[t].kingOfTheHill]_vars

\* The step calls fetchAMMInfo for token t of invocation c.
Dispatches(c, t) ==
  tok'[c][t].attempts # tok[c][t].attempts /\ tok'[c][t].attempts # << >>

\* C19: in getAMMInfo an attempt on xrplcluster.com is dispatched by the limiter
\* (the job waited there and is counted as running), and an attempt on any
\* other endpoint is dispatched directly and takes nothing from the limiter.
C19_OnlyQuotaEndpointThroughLimiter ==
  [][\A c \in Slots, t \in Tokens :
       Dispatches(c, t) =>
         LET ep == tok'[c][t].attempts[Len(tok'[c][t].attempts)]
         IN  IF XRPL_WSS_LIST[ep] = "wss://xrplcluster.com/"
             THEN tok[c][t].pc = "limiter" /\ limiterRunning' = limiterRunning + 1
             ELSE tok[c][t].pc # "limiter" /\ limiterRunning' = limiterRunning]_vars

\* An attempt on xrplcluster.com is in flight, after the two direct ones failed.
C19_Witness ==
  \E c \in Slots, t \in Tokens :
    /\ tok[c][t].pc = "connecting"
    /\ tok[c][t].attempts = << 1, 2, 3 >>
    /\ limiterRunning = 1

\* =========================================================================
\* The request path of updateData.js: limiter.schedule(() => fetchWithRetry(url))
\* with handleRateLimiting, updateRateLimit and the shared rateLimit.  Time is
\* Date.now(); it moves from one deadline (a pending wait, rateLimit.reset) to
\* the next.
\* =========================================================================
\* What the server can answer: the status and the headers parseInt reads.
Statuses == {200, 429, 500}
HeaderLimit == {NaN, 500}
HeaderRemaining == {NaN, -1, 0, 1}
HeaderReset == {NaN, 2}          \* X-Ratelimit-Reset, in seconds
HeaderRetryAfter == {NaN, 1}     \* Retry-After, in seconds (NaN: no header)
Headers ==
  [limit : HeaderLimit, remaining : HeaderRemaining, reset : HeaderReset,
   retryAfter : HeaderRetryAfter]

\* Mutant of MustWait: handleRateLimiting never waits.
MustWaitNever(rl, t) == FALSE

\* handleRateLimiting: rateLimit.remaining <= 0, and waitTime = reset - now > 0.
MustWait(rl, t) == rl.remaining <= 0 /\ rl.reset - t > 0

\* const response = await fetch(url)
fetchCall(rq) == [rq EXCEPT !.pc = "fetching", !.wake = 0]

\* limiter.updateSettings({ reservoir: rateLimit.limit, ... }) of handleRateLimiting.
updateSettings(lim, rl) ==
  [lim EXCEPT !.reservoir = rl.limit, !.reservoirRefreshAmount = rl.limit]

\* The settings after handleRateLimiting has run to its end with quota state rl.
SettingsAfter(lim, rl) == IF rl.remaining <= 0 THEN updateSettings(lim, rl) ELSE lim

\* The top of the loop body: await handleRateLimiting(), which waits for
\* rateLimit.reset or returns, and then fetch(url).
handleRateLimiting(rq) ==
  IF MustWait(rateLimit, now)
  THEN [rq EXCEPT !.pc = "rlWait", !.wake = now + (rateLimit.reset - now),
                  !.gate = rateLimit.reset]
  ELSE fetchCall([rq EXCEPT !.gate = 0])

\* attempt++ and the loop condition: another iteration, or the loop is left and
\* the function ends without a return statement.
NextAttempt(rq) ==
  IF rq.attempt + 1 < retries
  THEN handleRateLimiting([rq EXCEPT !.attempt = @ + 1])
  ELSE [rq EXCEPT !.attempt = @ + 1, !.pc = "undefined", !.wake = 0]

\* Mutant of fetchCatch: the catch block waits and goes on, whatever the attempt.
fetchCatchAlwaysRetry(rq) == [rq EXCEPT !.pc = "backoff", !.wake = now + delayMs]

\* catch (error): wait(delayMs) before the next attempt, or rethrow on the last.
fetchCatch(rq) ==
  IF rq.attempt < retries - 1
  THEN [rq EXCEPT !.pc = "backoff", !.wake = now + delayMs]
  ELSE [rq EXCEPT !.pc = "threw"]

\* Mutant of updateRateLimit: every field is assigned what parseInt returned.
updateRateLimitAssignAll(rl, h) ==
  [ limit |-> h.limit, remaining |-> h.remaining,
    reset |-> IF isNaN(h.reset) THEN NaN ELSE now + h.reset * 1000 ]

\* updateRateLimit(headers)
updateRateLimit(rl, h) ==
  [ limit |-> IF isNaN(h.limit) THEN rl.limit ELSE h.limit,
    remaining |-> IF isNaN(h.remaining) THEN rl.remaining ELSE h.remaining,
    reset |-> IF isNaN(h.reset) THEN rl.reset ELSE now + h.reset * 1000 ]

\* A Retry-After header that carries an HTTP-date (of 2 s after the response)
\* instead of a number of seconds.
HTTP_DATE == -2000000

\* parseInt(retryAfter): NaN for a text that does not start with digits.
parseInt(v) == IF v = HTTP_DATE THEN NaN ELSE v

\* x * y of JavaScript numbers, one of which may be NaN.
Times(x, y) == IF isNaN(x) \/ isNaN(y) THEN NaN ELSE x * y

\* The waitTime after a 429: if (retryAfter) parseInt(retryAfter) * 1000, else
\* X-Ratelimit-Reset when it parses, else delayMs.  headers.get returns null
\* (NaN here) when there is no Retry-After header.
RetryWait(h) ==
  IF h.retryAfter # NaN THEN Times(parseInt(h.retryAfter), 1000)
  ELSE IF ~isNaN(h.reset) THEN h.reset * 1000 ELSE delayMs

\* wait(ms): the delay setTimeout uses, 1 ms when ms is NaN or below 1.
wait(ms) == IF isNaN(ms) \/ ms < 1 THEN 1 ELSE ms

\* Mutant of Consume: the quota state is not decremented.
ConsumeNever(rl) == rl

\* Mutant of Consume: the decrement is not guarded.
ConsumeUnguarded(rl) == [rl EXCEPT !.remaining = @ - 1]

\* if (rateLimit.remaining > 0) rateLimit.remaining -= 1
Consume(rl) == IF rl.remaining > 0 THEN [rl EXCEPT !.remaining = @ - 1] ELSE rl

\* A call of fetchWithRetry that has not settled (its limiter job is running).
InCall(rq) == rq.pc \in {"rlWait", "fetching", "wait429", "backoff"}
Sleeping(rq) == rq.pc \in {"rlWait", "wait429", "backoff"}

\* The state of the updaters, left alone by the request path.
updaterVars == << isUpdating, cached, store, cyc, tok, limiterRunning, mainPc >>

\* limiter.schedule(() => fetchWithRetry(url)): the limiter starts the job
\* (reservoir and maxConcurrent allow it), which runs into its first await.
FetchStart(r) ==
  /\ req[r].pc = "idle"
  /\ limiter.reservoir > 0
  /\ MayDispatch(Cardinality({q \in Reqs : InCall(req[q])}), maxConcurrent)
  /\ LET rq == handleRateLimiting(req[r])
         lim == [limiter EXCEPT !.reservoir = @ - 1]
     IN  /\ req' = [req EXCEPT ![r] = rq]
         /\ limiter' = IF rq.pc = "fetching" THEN SettingsAfter(lim, rateLimit) ELSE lim
  /\ UNCHANGED << rateLimit, now, job >>
  /\ UNCHANGED << updaterVars, calcVars, poolVars >>

\* The wait(waitTime) of handleRateLimiting resolves: updateSettings, then fetch.
RateLimitWake(r) ==
  /\ req[r].pc = "rlWait"
  /\ now >= req[r].wake
  /\ req' = [req EXCEPT ![r] = fetchCall(@)]
  /\ limiter' = updateSettings(limiter, rateLimit)
  /\ UNCHANGED << rateLimit, now, job >>
  /\ UNCHANGED << updaterVars, calcVars, poolVars >>

\* fetch(url) resolves with status st and headers h.
Response(r, st, h) ==
  /\ req[r].pc = "fetching"
  /\ LET rl == updateRateLimit(rateLimit, h)
     IN  IF st = 429
         THEN /\ rateLimit' = rl
              /\ req' = [req EXCEPT ![r] =
                           [@ EXCEPT !.pc = "wait429", !.wake = now + wait(RetryWait(h)),
                                     !.gate = 0]]
         ELSE IF st # 200
         THEN /\ rateLimit' = rl
              /\ req' = [req EXCEPT ![r] = fetchCatch([@ EXCEPT !.gate = 0])]
         ELSE /\ rateLimit' = Consume(rl)
              /\ req' = [req EXCEPT ![r] = [@ EXCEPT !.pc = "returned", !.gate = 0]]
  /\ UNCHANGED << now, job, limiter >>
  /\ UNCHANGED << updaterVars, calcVars, poolVars >>

\* fetch(url) rejects (the request did not get through).
FetchError(r) ==
  /\ req[r].pc = "fetching"
  /\ req' = [req EXCEPT ![r] = fetchCatch([@ EXCEPT !.gate = 0])]
  /\ UNCHANGED << rateLimit, now, job, limiter >>
  /\ UNCHANGED << updaterVars, calcVars, poolVars >>

\* The wait after a 429 resolves: continue.
RetryWake(r) ==
  /\ req[r].pc = "wait429"
  /\ now >= req[r].wake
  /\ LET rq == NextAttempt(req[r])
     IN  /\ req' = [req EXCEPT ![r] = rq]
         /\ limiter' = IF rq.pc = "fetching" THEN SettingsAfter(limiter, rateLimit)
                       ELSE limiter
  /\ UNCHANGED << rateLimit, now, job >>
  /\ UNCHANGED << updaterVars, calcVars, poolVars >>

\* The wait(delayMs) of the catch block resolves: the next iteration.
BackoffWake(r) ==
  /\ req[r].pc = "backoff"
  /\ now >= req[r].wake
  /\ LET rq == NextAttempt(req[r])
     IN  /\ req' = [req EXCEPT ![r] = rq]
         /\ limiter' = IF rq.pc = "fetching" THEN SettingsAfter(limiter, rateLimit)
                       ELSE limiter
  /\ UNCHANGED << rateLimit, now, job >>
  /\ UNCHANGED << updaterVars, calcVars, poolVars >>

\* Bottleneck's reservoirRefreshInterval: the reservoir is refilled (at any
\* moment once an interval has gone by).
ReservoirRefresh ==
  /\ now >= reservoirRefreshInterval
  /\ limiter.reservoir # limiter.reservoirRefreshAmount
  /\ limiter' = [limiter EXCEPT !.reservoir = limiter.reservoirRefreshAmount]
  /\ UNCHANGED << rateLimit, now, req, job >>
  /\ UNCHANGED << updaterVars, calcVars, poolVars >>

\* Time passes to the next deadline; a wait that is due resolves first.
Advance ==
  /\ \A r \in Reqs : Sleeping(req[r]) => req[r].wake > now
  /\ \E t \in {req[r].wake : r \in {q \in Reqs : Sleeping(req[q])}} \cup {rateLimit.reset} :
       /\ t > now
       /\ \A r \in Reqs : Sleeping(req[r]) => t <= req[r].wake
       /\ now' = t
  /\ UNCHANGED << rateLimit, req, job, limiter >>
  /\ UNCHANGED << updaterVars, calcVars, poolVars >>

FetchNext ==
  \/ \E r \in Reqs : FetchStart(r)
  \/ \E r \in Reqs : RateLimitWake(r)
  \/ \E r \in Reqs, st \in Statuses, h \in Headers : Response(r, st, h)
  \/ \E r \in Reqs : FetchError(r)
  \/ \E r \in Reqs : RetryWake(r)
  \/ \E r \in Reqs : BackoffWake(r)
  \/ ReservoirRefresh
  \/ Advance

FetchSpec == Init /\ [][FetchNext]_vars

\* The step sends the request of call r: fetch(url) is called.
Sends(r) == req'[r].pc = "fetching" /\ req[r].pc # "fetching"

C17_RemainingNeverNegative == rateLimit.remaining >= 0

\* C20: after a 429 response fetchWithRetry waits and then makes the request
\* again (through handleRateLimiting); the call does not end on a 429.
C20_QuotaRejectionRetried ==
  [][\A r \in Reqs :
       (req[r].pc = "wait429" /\ req'[r].pc # "wait429")
         => req'[r].pc \in {"rlWait", "fetching"}]_vars

\* =========================================================================
\* The limiter under load: a batch hands more jobs to limiter.schedule than
\* maxConcurrent.  A job is fetchWithRetry(url): it has one request out at a
\* time and may pause between two attempts.
\*   job[j] : idle | queued | sending | pausing | done
\* =========================================================================
RunningJobs == {j \in Jobs : job[j] \in {"sending", "pausing"}}

\* batchTokens.map(...): limiter.schedule(() => fetchWithRetry(url)) is called.
Schedule(j) ==
  /\ job[j] = "idle"
  /\ job' = [job EXCEPT ![j] = "queued"]
  /\ UNCHANGED << rateLimit, now, req, limiter >>
  /\ UNCHANGED << updaterVars, calcVars, poolVars >>

\* The limiter starts a queued job: its first request goes out.
JobDispatch(j) ==
  /\ job[j] = "queued"
  /\ limiter.reservoir > 0
  /\ MayDispatch(Cardinality(RunningJobs), maxConcurrent)
  /\ job' = [job EXCEPT ![j] = "sending"]
  /\ limiter' = [limiter EXCEPT !.reservoir = @ - 1]
  /\ UNCHANGED << rateLimit, now, req >>
  /\ UNCHANGED << updaterVars, calcVars, poolVars >>

\* The request of the job comes back and the job waits before its next attempt.
JobPause(j) ==
  /\ job[j] = "sending"
  /\ job' = [job EXCEPT ![j] = "pausing"]
  /\ UNCHANGED << rateLimit, now, req, limiter >>
  /\ UNCHANGED << updaterVars, calcVars, poolVars >>

\* The wait of the job is over: its next request goes out.
JobResume(j) ==
  /\ job[j] = "pausing"
  /\ job' = [job EXCEPT ![j] = "sending"]
  /\ UNCHANGED << rateLimit, now, req, limiter >>
  /\ UNCHANGED << updaterVars, calcVars, poolVars >>

\* fetchWithRetry settles: the job is over.
JobDone(j) ==
  /\ job[j] = "sending"
  /\ job' = [job EXCEPT ![j] = "done"]
  /\ UNCHANGED << rateLimit, now, req, limiter >>
  /\ UNCHANGED << updaterVars, calcVars, poolVars >>

LimiterNext ==
  \/ \E j \in Jobs : Schedule(j)
  \/ \E j \in Jobs : JobDispatch(j)
  \/ \E j \in Jobs : JobPause(j)
  \/ \E j \in Jobs : JobResume(j)
  \/ \E j \in Jobs : JobDone(j)

LimiterSpec == Init /\ [][LimiterNext]_vars

\* C18: at most maxConcurrent requests to the rate-limited endpoint are out at
\* the same time, however many jobs were handed to the limiter.
C18_InFlightAtMostMaxConcurrent ==
  Cardinality({j \in Jobs : job[j] = "sending"}) <= 5

\* The cap binds: maxConcurrent requests are out and a further job is waiting.
C18_Witness ==
  /\ Cardinality({j \in Jobs : job[j] = "sending"}) = 5
  /\ \E j \in Jobs : job[j] = "queued"

\* A call of fetchWithRetry that has ended: it returned a response, it threw,
\* or it ran off the end of its loop.
Settled(rq) == rq.pc \in {"returned", "threw", "undefined"}

\* C21: fetchWithRetry sends at most `retries` requests: every request it sends
\* belongs to an attempt 0 .. retries - 1 and a retry belongs to the next
\* attempt; an error on the last attempt is rethrown; a call that has ended
\* sends nothing more.
C21_AtMostRetriesAttempts ==
  [][\A r \in Reqs :
       /\ Sends(r) => req'[r].attempt < retries
       /\ (Sends(r) /\ req[r].pc \in {"wait429", "backoff"})
            => req'[r].attempt = req[r].attempt + 1
       /\ req'[r].attempt >= req[r].attempt
       /\ (req[r].pc = "fetching" /\ req[r].attempt = retries - 1
             /\ req'[r].pc \notin {"fetching", "returned", "wait429"})
            => req'[r].pc = "threw"
       /\ req'[r].pc = "threw" => req[r].attempt = retries - 1
       /\ Settled(req[r]) => req'[r] = req[r]]_vars

\* All attempts of a call have failed and the last error was rethrown.
C21_Witness ==
  \E r \in Reqs : req[r].pc = "threw" /\ req[r].attempt = retries - 1

\* =========================================================================
\* Decimal arithmetic of bignumber.js as part_000 .. part_002 configure it:
\* BigNumber.config({ EXPONENTIAL_AT: 1e9 }) and nothing else, so that
\* dividedBy rounds its quotient to the default DECIMAL_PLACES (20) with the
\* default ROUNDING_MODE (ROUND_HALF_UP); plus, minus and multipliedBy are
\* exact.  A finite value is  sign * mag / 10^DECIMAL_PLACES, where mag is a
\* natural number written as its limbs in base LIMB, least significant first,
\* without leading zero limbs (zero is << >>).
\* =========================================================================
DECIMAL_PLACES == 20
LIMB == 10000          \* four decimal digits to a limb

RECURSIVE Norm(_)
Norm(x) ==
  IF x = << >> THEN << >>
  ELSE IF x[Len(x)] = 0 THEN Norm(SubSeq(x, 1, Len(x) - 1)) ELSE x

RECURSIVE Zeros(_)
Zeros(n) == IF n = 0 THEN << >> ELSE << 0 >> \o Zeros(n - 1)

RECURSIVE Limbs(_)
Limbs(n) == IF n = 0 THEN << >> ELSE << n % LIMB >> \o Limbs(n \div LIMB)

\* The natural number n * 10^DECIMAL_PLACES: the integer n as a decimal value.
Scaled(n) == Norm(Zeros(DECIMAL_PLACES \div 4) \o Limbs(n))

RECURSIVE BigInc(_)
BigInc(x) ==
  IF x = << >> THEN << 1 >>
  ELSE IF Head(x) + 1 < LIMB THEN << Head(x) + 1 >> \o Tail(x)
  ELSE << 0 >> \o BigInc(Tail(x))

RECURSIVE BigMulSmall(_, _, _)
BigMulSmall(x, k, carry) ==
  IF x = << >> THEN Limbs(carry)
  ELSE LET v == Head(x) * k + carry
       IN  << v % LIMB >> \o BigMulSmall(Tail(x), k, v \div LIMB)

RECURSIVE BigDivSmall(_, _)
BigDivSmall(x, k) ==
  IF x = << >> THEN [q |-> << >>, r |-> 0]
  ELSE LET hi == BigDivSmall(Tail(x), k)
           cur == hi.r * LIMB + Head(x)
       IN  [q |-> << cur \div k >> \o hi.q, r |-> cur % k]

\* Sum and product of two natural numbers given by their limbs.
RECURSIVE BigAdd(_, _, _)
BigAdd(x, y, carry) ==
  IF x = << >> /\ y = << >> THEN Limbs(carry)
  ELSE LET a == IF x = << >> THEN 0 ELSE Head(x)
           b == IF y = << >> THEN 0 ELSE Head(y)
           v == a + b + carry
       IN  << v % LIMB >> \o BigAdd(IF x = << >> THEN x ELSE Tail(x),
                                    IF y = << >> THEN y ELSE Tail(y), v \div LIMB)

RECURSIVE BigMul(_, _)
BigMul(x, y) ==
  IF x = << >> THEN << >>
  ELSE Norm(BigAdd(BigMulSmall(y, Head(x), 0), << 0 >> \o BigMul(Tail(x), y), 0))

\* x <= y for two natural numbers given by their limbs without leading zeros.
RECURSIVE BigLeq(_, _)
BigLeq(x, y) ==
  IF Len(x) # Len(y) THEN Len(x) < Len(y)
  ELSE IF x = << >> THEN TRUE
  ELSE IF x[Len(x)] # y[Len(y)] THEN x[Len(x)] < y[Len(y)]
  ELSE BigLeq(Norm(SubSeq(x, 1, Len(x) - 1)), Norm(SubSeq(y, 1, Len(y) - 1)))

Abs(n) == IF n < 0 THEN 0 - n ELSE n

BN_ZERO == [neg |-> FALSE, mag |-> << >>]
BN_NAN == [special |-> "NaN"]
BN_INFINITY == [special |-> "Infinity"]
IsFinite(x) == DOMAIN x = {"neg", "mag"}

\* new BigNumber(a).dividedBy(b) for integers a and b >= 0: the quotient rounded
\* half up (away from zero) at DECIMAL_PLACES decimal places; a division by
\* zero does not throw, it gives Infinity, and 0 / 0 gives NaN.
dividedBy(a, b) ==
  IF b = 0 THEN (IF a = 0 THEN BN_NAN ELSE BN_INFINITY)
  ELSE LET d == BigDivSmall(Scaled(Abs(a)), b)
           mag == Norm(IF 2 * d.r >= b THEN BigInc(d.q) ELSE d.q)
       IN  [neg |-> a < 0 /\ mag # << >>, mag |-> mag]

\* x.multipliedBy(k) for a small natural k.
multipliedBy(x, k) == [neg |-> x.neg /\ k # 0, mag |-> Norm(BigMulSmall(x.mag, k, 0))]

\* =========================================================================
\* part_002: priceHistory of one token and calculatePriceChange.  Time is in
\* hours; a price is a natural number (the decimal string of toFixed()).
\* =========================================================================
SEVEN_DAYS == 168      \* 7 * 24 * 60 * 60 * 1000 ms
MaxClock == 504        \* the model stops the clock here
MaxHistory == 3        \* entries a written history holds at most in the model
MaxPrice == 3
Prices == 0..MaxPrice

\* Mutant of FindIndex: the newest entry of the window instead of the first.
FindIndexLast(history, targetTime) ==
  LET hit == {i \in 1..Len(history) : history[i].timestamp >= targetTime}
  IN  IF hit = {} THEN 0 ELSE CHOOSE i \in hit : \A j \in hit : j <= i

\* priceHistory.find(entry => new Date(entry.timestamp).getTime() >= targetTime):
\* the index of the first such entry in array order, 0 for undefined.
FindIndex(history, targetTime) ==
  LET hit == {i \in 1..Len(history) : history[i].timestamp >= targetTime}
  IN  IF hit = {} THEN 0 ELSE CHOOSE i \in hit : \A j \in hit : i <= j

\* calculatePriceChange(priceHistory, hoursAgo) called when Date.now() is t.
calculatePriceChange(history, hoursAgo, t) ==
  LET targetTime == t - hoursAgo
      i == FindIndex(history, targetTime)
  IN  IF i # 0
      THEN LET pastPrice == history[i].spotPrice
               currentPrice == history[Len(history)].spotPrice
           IN  IF pastPrice = 0 THEN BN_ZERO
               ELSE multipliedBy(dividedBy(currentPrice - pastPrice, pastPrice), 100)
      ELSE BN_ZERO

\* Mutant of Prune: entries of exactly seven days ago are dropped too.
PruneStrict(history, t) ==
  SelectSeq(history, LAMBDA entry : entry.timestamp > t - SEVEN_DAYS)

\* existingPriceHistory.filter(entry => new Date(entry.timestamp) >= sevenDaysAgo)
Prune(history, t) ==
  SelectSeq(history, LAMBDA entry : entry.timestamp >= t - SEVEN_DAYS)

\* Time that goes by between two steps of the loop, in hours: half a week, a
\* week, a week and a half (the process may have been stopped for days).
Elapsed == {84, 168, 252}

\* updateAMMInfo: collection.find(...).toArray() returns the token as stored.
HistFind ==
  /\ calc.fn \in {"none", "written"}
  /\ calc' = [fn |-> "updateAMMInfo", token |-> [priceHistory |-> priceHistory]]
  /\ UNCHANGED << priceHistory, clock >>
  /\ UNCHANGED << updaterVars, fetchVars, poolVars >>

\* The loop body for the token: getAMMInfo answered with reserves that give
\* spotPrice; the entry is pushed, the history pruned, the price changes are
\* calculated and updateOne writes the document.
HistWrite(spotPrice, d) ==
  /\ calc.fn = "updateAMMInfo"
  /\ clock + d <= MaxClock
  /\ Len(Prune(calc.token.priceHistory, clock + d)) < MaxHistory
  /\ LET t == clock + d
         priceHistoryEntry == [timestamp |-> t, spotPrice |-> spotPrice]
         existingPriceHistory == Append(calc.token.priceHistory, priceHistoryEntry)
         updatedPriceHistory == Prune(existingPriceHistory, t)
     IN  /\ clock' = t
         /\ priceHistory' = updatedPriceHistory
         /\ calc' = [fn |-> "written",
                     priceHistoryEntry |-> priceHistoryEntry,
                     existingPriceHistory |-> existingPriceHistory,
                     priceChange1h |-> calculatePriceChange(existingPriceHistory, 1, t),
                     priceChange24h |-> calculatePriceChange(existingPriceHistory, 24, t),
                     priceChange7d |-> calculatePriceChange(existingPriceHistory, 168, t)]
  /\ UNCHANGED << updaterVars, fetchVars, poolVars >>

\* The loop body for the token without a write: no AMM info, or an error that
\* the catch block logs.
HistSkip(d) ==
  /\ calc.fn = "updateAMMInfo"
  /\ clock + d <= MaxClock
  /\ clock' = clock + d
  /\ calc' = [fn |-> "none"]
  /\ UNCHANGED priceHistory
  /\ UNCHANGED << updaterVars, fetchVars, poolVars >>

HistNext ==
  \/ HistFind
  \/ \E p \in Prices, d \in Elapsed : HistWrite(p, d)
  \/ \E d \in Elapsed : HistSkip(d)

HistorySpec == Init /\ [][HistNext]_vars

Sorted(history) ==
  \A i, j \in 1..Len(history) : i < j => history[i].timestamp <= history[j].timestamp

\* C22: after every write of priceHistory the stored history is not empty, ends
\* with the entry this cycle appended, holds only entries of the last seven
\* days and is ordered by time; pruning does not remove the newest entry.
C22_HistoryAfterWrite ==
  [][calc'.fn = "written" =>
       /\ priceHistory' # << >>
       /\ priceHistory'[Len(priceHistory')] = calc'.priceHistoryEntry
       /\ calc'.priceHistoryEntry.timestamp = clock'
       /\ \A i \in 1..Len(priceHistory') :
            priceHistory'[i].timestamp >= clock' - SEVEN_DAYS
       /\ Sorted(priceHistory')
       /\ \A i \in 1..Len(calc'.existingPriceHistory) :
            calc'.existingPriceHistory[i].timestamp >= clock' - SEVEN_DAYS
              => \E j \in 1..Len(priceHistory') :
                   priceHistory'[j] = calc'.existingPriceHistory[i]]_vars

\* A write has pruned an old entry and kept an entry of exactly seven days ago.
C22_Witness ==
  /\ calc.fn = "written"
  /\ Len(priceHistory) < Len(calc.existingPriceHistory)
  /\ Len(priceHistory) >= 2
  /\ priceHistory[1].timestamp = clock - SEVEN_DAYS

\* =========================================================================
\* The metric functions on their own: calc holds the arguments of one call and,
\* once the call has been made, its result.
\* =========================================================================
\* Date.now() at the call of calculatePriceChange, and the times of the entries
\* a history may hold: before the 7 day window, on the edge of the 7 day, the
\* 24 hour and the 1 hour window, and now.
CallTime == 200
EntryTimes == {0, 32, 176, 199, 200}
Windows == {1, 24, 168}

\* What priceHistory can be: entries in the order they were appended, each
\* stamped later than the one before.
Histories ==
  {h \in UNION {[1..n -> [timestamp : EntryTimes, spotPrice : Prices]] : n \in 0..MaxHistory} :
     \A i \in 1..Len(h) - 1 : h[i].timestamp < h[i + 1].timestamp}

PriceChangeCalls ==
  [fn : {"calculatePriceChange"}, priceHistory : Histories, hoursAgo : Windows,
   done : {FALSE}, out : {BN_ZERO}]

\* An imbalance percentage, in ten-thousandths of a percent.
PCT == 10000
Imbalances ==
  {0, 9999, 10000, 10001, 29999, 30000, 30001, 49999, 50000, 50001,
   99999, 100000, 100001, 1000000}

PoolHealthCalls ==
  [fn : {"assessPoolHealth"}, imbalancePercentage : Imbalances,
   done : {FALSE}, out : {"none"}]

\* Mutant of assessPoolHealth: the boundaries belong to the worse class.
assessPoolHealthStrict(imbalancePercentage) ==
  IF imbalancePercentage < 1 * PCT THEN "Excellent"
  ELSE IF imbalancePercentage < 3 * PCT THEN "Good"
  ELSE IF imbalancePercentage < 5 * PCT THEN "Fair"
  ELSE IF imbalancePercentage < 10 * PCT THEN "Poor"
  ELSE "Critical"

\* assessPoolHealth(imbalancePercentage).status
assessPoolHealth(imbalancePercentage) ==
  IF imbalancePercentage <= 1 * PCT THEN "Excellent"
  ELSE IF imbalancePercentage <= 3 * PCT THEN "Good"
  ELSE IF imbalancePercentage <= 5 * PCT THEN "Fair"
  ELSE IF imbalancePercentage <= 10 * PCT THEN "Poor"
  ELSE "Critical"

\* Reserves an amm_info answer can carry: amount in drops (whole XRP here, so
\* that the division by 1e6 is exact) and amount2.value.
Reserves ==
  [amount : {b * DROPS_PER_XRP : b \in {0, 1, 2, 3, 7}}, value : {0, 1, 2, 3, 7, 30000}]

PricesCalls ==
  [fn : {"processToken"}, amm : Reserves, done : {FALSE},
   out : {[spotPrice |-> BN_ZERO, pricePerXRP |-> BN_ZERO]}]

\* processToken: xrpAmountBN = amount / 1e6, tokenAmountBN = amount2.value,
\* spotPriceBN = xrpAmountBN.dividedBy(tokenAmountBN) and
\* pricePerXRPBN = tokenAmountBN.dividedBy(xrpAmountBN).
processTokenPrices(amm) ==
  LET xrpAmount == amm.amount \div DROPS_PER_XRP
      tokenAmount == amm.value
  IN  [spotPrice |-> dividedBy(xrpAmount, tokenAmount),
       pricePerXRP |-> dividedBy(tokenAmount, xrpAmount)]

\* -------------------------------------------------------------------------
\* The Number arithmetic of JavaScript (updateData.js: xrpPrice *
\* token.totalSupply): IEEE 754 binary64.  A positive Number is m / 2^s with
\* 2^52 <= m < 2^53, m given by its limbs; zero has m = << >>.
RECURSIVE Pow2(_)
Pow2(n) ==
  IF n = 0 THEN << 1 >>
  ELSE IF n >= 13 THEN BigMulSmall(Pow2(n - 13), 8192, 0)
  ELSE BigMulSmall(Pow2(n - 1), 2, 0)

BigLess(x, y) == ~BigLeq(y, x)
IsOdd(x) == x # << >> /\ x[1] % 2 = 1

\* floor(n / 2^t)
RECURSIVE ShiftRight(_, _)
ShiftRight(n, t) ==
  IF t = 0 THEN n
  ELSE IF t >= 13 THEN ShiftRight(Norm(BigDivSmall(n, 8192).q), t - 13)
  ELSE Norm(BigDivSmall(n, 2 ^ t).q)

\* A mantissa that rounding has carried to 2^53 is 2^52 with one binary place less.
Carried(m, s) ==
  IF m = Pow2(53) THEN [m |-> Pow2(52), s |-> s - 1] ELSE [m |-> m, s |-> s]

\* The value n / 2^s, n >= 2^52, rounded to 53 bits, round half to even: t bits
\* are shifted out, and what they held is compared with half of 2^t.
RoundTo53(n, s) ==
  LET t == CHOOSE t \in 0..64 :
             /\ BigLeq(BigMul(Pow2(52), Pow2(t)), n)
             /\ BigLess(n, BigMul(Pow2(53), Pow2(t)))
      q == ShiftRight(n, t)
      half == IF t = 0 THEN << >> ELSE Norm(BigAdd(BigMul(q, Pow2(t)), Pow2(t - 1), 0))
      up == /\ t > 0
            /\ \/ BigLess(half, n)
               \/ half = n /\ IsOdd(q)
  IN  Carried(IF up THEN BigInc(q) ELSE q, s - t)

\* JSON.parse of the decimal number n / den (den a power of ten), below 2^52:
\* the nearest binary64 value.
ParseNumber(n, den) ==
  IF n = 0 THEN [m |-> << >>, s |-> 0]
  ELSE LET s == CHOOSE s \in 0..64 :
                  /\ BigLeq(BigMulSmall(Pow2(52), den, 0), BigMul(Limbs(n), Pow2(s)))
                  /\ BigLess(BigMul(Limbs(n), Pow2(s)), BigMulSmall(Pow2(53), den, 0))
           d == BigDivSmall(BigMul(Limbs(n), Pow2(s)), den)
           q == Norm(d.q)
           up == 2 * d.r > den \/ (2 * d.r = den /\ IsOdd(q))
       IN  Carried(IF up THEN BigInc(q) ELSE q, s)

\* x * y of two Numbers: the exact product rounded to 53 bits.
NumberTimes(x, y) ==
  IF x.m = << >> \/ y.m = << >> THEN [m |-> << >>, s |-> 0]
  ELSE RoundTo53(BigMul(x.m, y.m), x.s + y.s)

\* data.rate as the JSON text gives it, in tenths, and token.totalSupply.
MarketCapCalls ==
  [fn : {"updatePricesAndMarketCaps"}, rate : {1, 5, 10, 25}, totalSupply : {3, 29450},
   done : {FALSE}, out : {[m |-> << >>, s |-> 0]}]

\* updatePricesAndMarketCaps: const marketCap = xrpPrice * token.totalSupply
marketCap(rate, totalSupply) ==
  NumberTimes(ParseNumber(rate, 10), ParseNumber(totalSupply, 1))

\* The quota states updateRateLimit is applied to, and the headers of a 429
\* response (Retry-After as seconds, as an HTTP-date, or absent).
QuotaStates ==
  { [limit |-> DEFAULT_LIMIT, remaining |-> DEFAULT_LIMIT, reset |-> DEFAULT_RESET_MS],
    [limit |-> 500, remaining |-> 0, reset |-> 2000] }
RateLimitCalls ==
  [fn : {"updateRateLimit"}, rateLimit : QuotaStates, headers : Headers,
   done : {FALSE}, out : {0}]
RetryWaitCalls ==
  [fn : {"fetchWithRetry"},
   headers : [limit : {NaN}, remaining : {NaN}, reset : HeaderReset,
              retryAfter : HeaderRetryAfter \cup {0, HTTP_DATE}],
   done : {FALSE}, out : {0}]

\* part_001: the prices the updater has stored for a token so far, each with
\* the time of its update (all before this one), and the spot price of this
\* update.  token.spotPrice is the last of the stored prices.
BatchPriceCalls ==
  [fn : {"processTokenBatch"},
   priceHistory : {h \in Histories : \A i \in 1..Len(h) : h[i].timestamp < CallTime},
   spotPrice : Prices \ {0}, done : {FALSE}, out : {[h \in Windows |-> BN_ZERO]}]

\* part_001 calculatePriceChange(oldPrice, newPrice, hours); oldPrice is 0 for
\* a document without spotPrice.
calculatePriceChangeBatch(oldPrice, newPrice, hours) ==
  IF oldPrice = 0 THEN BN_ZERO
  ELSE multipliedBy(dividedBy(newPrice - oldPrice, oldPrice), 100)

\* part_001 processToken: priceChange1h, priceChange24h and priceChange7d.
processTokenPriceChanges(token, spotPrice) ==
  [h \in Windows |-> calculatePriceChangeBatch(token.spotPrice, spotPrice, h)]

\* -------------------------------------------------------------------------
\* bignumber.js on two BigNumbers: x.dividedBy(y), x.multipliedBy(y), x.plus(y),
\* x.minus(y), x.toFixed(2), x.toNumber().
\* -------------------------------------------------------------------------
\* x - y for natural numbers x >= y given by their limbs.
RECURSIVE BigSub(_, _, _)
BigSub(x, y, borrow) ==
  IF x = << >> THEN << >>
  ELSE LET b == IF y = << >> THEN 0 ELSE Head(y)
           v == Head(x) - b - borrow
       IN  << (v + LIMB) % LIMB >> \o BigSub(Tail(x), IF y = << >> THEN y ELSE Tail(y),
                                            IF v < 0 THEN 1 ELSE 0)

\* The largest q below LIMB with d * q <= cur.
QuotientLimb(cur, d) ==
  LET Fits(q) == BigLeq(Norm(BigMulSmall(d, q, 0)), cur)
      hi == CHOOSE h \in 0..99 : Fits(100 * h) /\ (h = 99 \/ ~Fits(100 * (h + 1)))
  IN  CHOOSE q \in (100 * hi)..(100 * hi + 99) :
        Fits(q) /\ (q = 100 * hi + 99 \/ ~Fits(q + 1))

\* Quotient and remainder of x by d > 0, limb by limb from the most significant.
RECURSIVE BigDivide(_, _)
BigDivide(x, d) ==
  IF x = << >> THEN [q |-> << >>, r |-> << >>]
  ELSE LET hi == BigDivide(Tail(x), d)
           cur == Norm(<< Head(x) >> \o hi.r)
           qd == QuotientLimb(cur, d)
       IN  IF hi.r = << >> /\ Head(x) = 0 THEN [q |-> << 0 >> \o hi.q, r |-> << >>]
           ELSE [q |-> << qd >> \o hi.q,
                 r |-> Norm(BigSub(cur, BigMulSmall(d, qd, 0), 0))]

\* The natural number of a short limb list.
RECURSIVE BigToInt(_)
BigToInt(x) == IF x = << >> THEN 0 ELSE Head(x) + LIMB * BigToInt(Tail(x))

\* x.dividedBy(y) for finite x and y: rounded half up at DECIMAL_PLACES places.
dividedByBN(x, y) ==
  IF y.mag = << >> THEN (IF x.mag = << >> THEN BN_NAN ELSE BN_INFINITY)
  ELSE LET d == BigDivide(Zeros(DECIMAL_PLACES \div 4) \o x.mag, y.mag)
           mag == Norm(IF BigLeq(y.mag, Norm(BigAdd(d.r, d.r, 0))) THEN BigInc(d.q) ELSE d.q)
       IN  [neg |-> x.neg # y.neg /\ mag # << >>, mag |-> mag]

\* x.multipliedBy(y) for an integer x: the product is exact and has no more
\* decimal places than y.
multipliedByBN(x, y) ==
  LET p == BigMul(x.mag, y.mag)
  IN  [neg |-> x.neg # y.neg /\ p # << >>,
       mag |-> SubSeq(p, DECIMAL_PLACES \div 4 + 1, Len(p))]

\* x.plus(y) for x, y >= 0.
plus(x, y) == [neg |-> FALSE, mag |-> Norm(BigAdd(x.mag, y.mag, 0))]

\* x.minus(y) for x, y >= 0.
minus(x, y) ==
  IF BigLeq(y.mag, x.mag)
  THEN [neg |-> FALSE, mag |-> Norm(BigSub(x.mag, y.mag, 0))]
  ELSE [neg |-> TRUE, mag |-> Norm(BigSub(y.mag, x.mag, 0))]

\* x.toFixed(2) without its sign, as the number of hundredths: rounded half up.
toFixed2(x) ==
  LET half == Zeros(4) \o << 50 >>
      sum == BigAdd(x.mag, half, 0)
  IN  BigToInt(Norm(BigDivSmall(SubSeq(sum, 5, Len(sum)), 100).q))

\* |x|.toNumber() in ten-thousandths, rounded up to a whole one (the classes
\* of assessPoolHealth are bounded by whole percents).
toNumber(x) ==
  LET whole == BigToInt(SubSeq(x.mag, 5, Len(x.mag)))
  IN  IF \E i \in 1..Min(4, Len(x.mag)) : x.mag[i] # 0 THEN whole + 1 ELSE whole

\* The reserves of a pool: amount in drops, amount2.value as coef * LIMB^shift.
PoolReserves ==
  [amount : {b * DROPS_PER_XRP : b \in {1, 2, 7}},
   value : [coef : {1, 3, 7, 3000}, shift : {0, 4}]]
PoolCalls ==
  [fn : {"processTokenPool"}, amm : PoolReserves, done : {FALSE}, out : {0}]

\* new BigNumber(ammInfo.amount).dividedBy(1e6)
xrpAmountBN(amount) == [neg |-> FALSE, mag |-> Norm(Zeros(3) \o Limbs(amount * 100))]

\* new BigNumber(ammInfo.amount2.value)
tokenAmountBN(value) ==
  [neg |-> FALSE,
   mag |-> Norm(Zeros(DECIMAL_PLACES \div 4 + value.shift) \o Limbs(value.coef))]

\* const tokenLiquidityInXRP = tokenAmountBN.multipliedBy(spotPriceBN)
tokenLiquidityInXRP(tokenAmount, spotPrice) == multipliedByBN(tokenAmount, spotPrice)

\* processToken: the pool balance of updateFields.
processTokenPool(amm) ==
  LET xrpAmount == xrpAmountBN(amm.amount)
      tokenAmount == tokenAmountBN(amm.value)
      spotPrice == dividedByBN(xrpAmount, tokenAmount)
      tokenLiquidity == tokenLiquidityInXRP(tokenAmount, spotPrice)
      totalLiquidityXRP == plus(xrpAmount, tokenLiquidity)
      xrpPercentage == multipliedBy(dividedByBN(xrpAmount, totalLiquidityXRP), 100)
      tokenPercentage == multipliedBy(dividedByBN(tokenLiquidity, totalLiquidityXRP), 100)
      poolImbalance == minus(xrpAmount, tokenLiquidity)
      poolImbalancePercentage ==
        multipliedBy(dividedByBN(poolImbalance, totalLiquidityXRP), 100)
  IN  [ spotPrice |-> spotPrice,
        xrpPercentage |-> toFixed2(xrpPercentage),
        tokenPercentage |-> toFixed2(tokenPercentage),
        imbalancePercentage |-> toFixed2(poolImbalancePercentage),
        health |-> assessPoolHealth(toNumber(poolImbalancePercentage)) ]

CalcInit ==
  /\ isUpdating = FALSE
  /\ cached = FALSE
  /\ store = [t \in Tokens |->
               [totalSupply |-> InitialSupply(t), kingOfTheHill |-> 0,
                ammInfo |-> FALSE]]
  /\ cyc = [c \in Slots |-> FreshCyc]
  /\ tok = [c \in Slots |-> [t \in Tokens |-> FreshTok]]
  /\ limiterRunning = 0
  /\ mainPc = "loop"
  /\ FetchIdle
  /\ priceHistory = << >>
  /\ clock = CallTime
  /\ calc \in PriceChangeCalls \cup PoolHealthCalls \cup PricesCalls \cup MarketCapCalls
              \cup RateLimitCalls \cup RetryWaitCalls \cup BatchPriceCalls
              \cup PoolCalls
  /\ PoolIdle

ApplyPriceChange ==
  /\ calc.fn = "calculatePriceChange"
  /\ ~calc.done
  /\ calc' = [calc EXCEPT !.done = TRUE,
                          !.out = calculatePriceChange(calc.priceHistory, calc.hoursAgo, clock)]
  /\ UNCHANGED << priceHistory, clock >>
  /\ UNCHANGED << updaterVars, fetchVars, poolVars >>

ApplyPoolHealth ==
  /\ calc.fn = "assessPoolHealth"
  /\ ~calc.done
  /\ calc' = [calc EXCEPT !.done = TRUE,
                          !.out = assessPoolHealth(calc.imbalancePercentage)]
  /\ UNCHANGED << priceHistory, clock >>
  /\ UNCHANGED << updaterVars, fetchVars, poolVars >>

ApplyPrices ==
  /\ calc.fn = "processToken"
  /\ ~calc.done
  /\ calc' = [calc EXCEPT !.done = TRUE, !.out = processTokenPrices(calc.amm)]
  /\ UNCHANGED << priceHistory, clock >>
  /\ UNCHANGED << updaterVars, fetchVars, poolVars >>

ApplyMarketCap ==
  /\ calc.fn = "updatePricesAndMarketCaps"
  /\ ~calc.done
  /\ calc' = [calc EXCEPT !.done = TRUE, !.out = marketCap(calc.rate, calc.totalSupply)]
  /\ UNCHANGED << priceHistory, clock >>
  /\ UNCHANGED << updaterVars, fetchVars, poolVars >>

ApplyUpdateRateLimit ==
  /\ calc.fn = "updateRateLimit"
  /\ ~calc.done
  /\ calc' = [calc EXCEPT !.done = TRUE,
                          !.out = updateRateLimit(calc.rateLimit, calc.headers)]
  /\ UNCHANGED << priceHistory, clock >>
  /\ UNCHANGED << updaterVars, fetchVars, poolVars >>

ApplyRetryWait ==
  /\ calc.fn = "fetchWithRetry"
  /\ ~calc.done
  /\ calc' = [calc EXCEPT !.done = TRUE, !.out = RetryWait(calc.headers)]
  /\ UNCHANGED << priceHistory, clock >>
  /\ UNCHANGED << updaterVars, fetchVars, poolVars >>

ApplyPriceChangeBatch ==
  /\ calc.fn = "processTokenBatch"
  /\ ~calc.done
  /\ LET stored == calc.priceHistory
         token == [spotPrice |-> IF stored = << >> THEN 0
                                 ELSE stored[Len(stored)].spotPrice]
     IN  calc' = [calc EXCEPT !.done = TRUE,
                              !.out = processTokenPriceChanges(token, calc.spotPrice)]
  /\ UNCHANGED << priceHistory, clock >>
  /\ UNCHANGED << updaterVars, fetchVars, poolVars >>

ApplyPool ==
  /\ calc.fn = "processTokenPool"
  /\ ~calc.done
  /\ calc' = [calc EXCEPT !.done = TRUE, !.out = processTokenPool(calc.amm)]
  /\ UNCHANGED << priceHistory, clock >>
  /\ UNCHANGED << updaterVars, fetchVars, poolVars >>

CalcNext ==
  \/ ApplyPriceChange
  \/ ApplyPoolHealth
  \/ ApplyPrices
  \/ ApplyMarketCap
  \/ ApplyUpdateRateLimit
  \/ ApplyRetryWait
  \/ ApplyPriceChangeBatch
  \/ ApplyPool

CalcSpec == CalcInit /\ [][CalcNext]_vars

\* The entries of a history that lie in the window of h hours before time t.
InWindow(history, h, t) == {i \in 1..Len(history) : history[i].timestamp >= t - h}

\* The percent change the specification defines for a history.
SpecPriceChange(history, h, t) ==
  IF InWindow(history, h, t) = {} THEN BN_ZERO
  ELSE LET oldest == CHOOSE i \in InWindow(history, h, t) :
                       \A j \in InWindow(history, h, t) :
                         history[i].timestamp <= history[j].timestamp
           past == history[oldest].spotPrice
           current == history[Len(history)].spotPrice
       IN  IF past = 0 THEN BN_ZERO
           ELSE multipliedBy(dividedBy(current - past, past), 100)

\* C23: calculatePriceChange(history, h) is (current - past) / past * 100 with
\* past the price of the oldest entry of the last h hours and current the price
\* of the last entry; it is 0 when no entry lies in the window (an empty
\* history included) and when the past price is 0.
C23_PriceChange ==
  (calc.fn = "calculatePriceChange" /\ calc.done)
    => calc.out = SpecPriceChange(calc.priceHistory, calc.hoursAgo, clock)

\* A change was calculated from an entry in the middle of the history: from 3
\* to 1 it is -66.666666666666666667 percent.
C23_Witness ==
  /\ calc.fn = "calculatePriceChange" /\ calc.done
  /\ Len(calc.priceHistory) = 3
  /\ InWindow(calc.priceHistory, calc.hoursAgo, clock) = {2, 3}
  /\ calc.priceHistory[1].spotPrice = 2
  /\ calc.priceHistory[2].spotPrice = 3
  /\ calc.priceHistory[3].spotPrice = 1
  /\ calc.out = [neg |-> TRUE, mag |-> << 6700, 6666, 6666, 6666, 6666, 66 >>]

\* The class the specification gives to an imbalance of p ten-thousandths.
SpecHealth(p) ==
  CHOOSE s \in {"Excellent", "Good", "Fair", "Poor", "Critical"} :
    /\ s = "Excellent" <=> p <= 1 * PCT
    /\ s = "Good" <=> (1 * PCT < p /\ p <= 3 * PCT)
    /\ s = "Fair" <=> (3 * PCT < p /\ p <= 5 * PCT)
    /\ s = "Poor" <=> (5 * PCT < p /\ p <= 10 * PCT)
    /\ s = "Critical" <=> p > 10 * PCT

\* C24: assessPoolHealth gives Excellent up to 1, Good up to 3, Fair up to 5,
\* Poor up to 10 and Critical above, each boundary in the better class.
C24_PoolHealthClasses ==
  (calc.fn = "assessPoolHealth" /\ calc.done)
    => /\ calc.out = SpecHealth(calc.imbalancePercentage)
       /\ calc.imbalancePercentage = 10000 => calc.out = "Excellent"
       /\ calc.imbalancePercentage = 10001 => calc.out = "Good"
       /\ calc.imbalancePercentage = 100000 => calc.out = "Poor"
       /\ calc.imbalancePercentage = 100001 => calc.out = "Critical"

\* The boundary 10.0 has been classified.
C24_Witness ==
  /\ calc.fn = "assessPoolHealth" /\ calc.done
  /\ calc.imbalancePercentage = 100000
  /\ calc.out = "Poor"

\* 1 and the epsilon 10^-DECIMAL_PLACES, at the scale of a product of two values.
ProductOne == Zeros(2 * (DECIMAL_PLACES \div 4)) \o << 1 >>
ProductEpsilon == Zeros(DECIMAL_PLACES \div 4) \o << 1 >>

\* spotPrice * pricePerXRP is 1 within 10^-DECIMAL_PLACES.
ProductIsOne(s, p) ==
  /\ IsFinite(s) /\ IsFinite(p)
  /\ s.neg = p.neg
  /\ LET prod == BigMul(s.mag, p.mag)
     IN  /\ BigLeq(prod, Norm(BigAdd(ProductOne, ProductEpsilon, 0)))
         /\ BigLeq(ProductOne, Norm(BigAdd(prod, ProductEpsilon, 0)))

\* C25: for reserves b >= 0 and q # 0 the two prices of processToken,
\* spotPrice = b / q and pricePerXRP = q / b, have the product 1 (within the
\* epsilon of the precision of the decimal arithmetic).
C25_PricesAreReciprocal ==
  (calc.fn = "processToken" /\ calc.done /\ calc.amm.value # 0)
    => ProductIsOne(calc.out.spotPrice, calc.out.pricePerXRP)

\* x * 10^27 for a natural number x given by its limbs.
Times27(x) == Norm(BigMulSmall(Zeros(6) \o x, 1000, 0))

\* The value m / d agrees with the exact quotient a / b (a, b > 0) to 28
\* significant digits: it differs from it by at most a / b * 10^-27.
Accurate28(m, d, a, b) ==
  LET x == Norm(BigMulSmall(m, b, 0))
      y == Norm(BigMulSmall(d, a, 0))
  IN  /\ BigLeq(Times27(y), Norm(BigAdd(Times27(x), y, 0)))
      /\ BigLeq(Times27(x), Norm(BigAdd(Times27(y), y, 0)))

\* The decimal arithmetic of processToken: both prices of positive reserves
\* agree with the exact quotients to 28 significant digits.
PricesHave28Digits ==
  (calc.fn = "processToken" /\ calc.done
     /\ calc.amm.amount # 0 /\ calc.amm.value # 0)
    => /\ Accurate28(calc.out.spotPrice.mag, Scaled(1),
                     calc.amm.amount \div DROPS_PER_XRP, calc.amm.value)
       /\ Accurate28(calc.out.pricePerXRP.mag, Scaled(1),
                     calc.amm.value, calc.amm.amount \div DROPS_PER_XRP)

\* The arithmetic of updatePricesAndMarketCaps: the market cap agrees with the
\* exact product rate * totalSupply to 28 significant digits.
MarketCapHas28Digits ==
  (calc.fn = "updatePricesAndMarketCaps" /\ calc.done)
    => Accurate28(calc.out.m, Pow2(calc.out.s), calc.rate * calc.totalSupply, 10)

\* C26: the metrics are computed in decimal arithmetic of at least 28
\* significant digits and never in binary floating point: every price and
\* every market cap the code computes agrees with the exact result of its
\* inputs to 28 significant digits.
C26_DecimalWith28Digits == PricesHave28Digits /\ MarketCapHas28Digits

\* C27: a call of fetchWithRetry ends by returning a response or by throwing an
\* error; it never ends without a response.
C27_ReturnsOrThrows == \A r \in Reqs : req[r].pc # "undefined"

\* Requests that are out: fetch(url) was called and has not settled.
InFlight == {q \in Reqs : req[q].pc = "fetching"}

\* C28: with concurrent callers no request is sent, before the reset deadline,
\* once the requests in flight use up the known quota rateLimit.remaining (the
\* case of a quota of 0 or less is C16's).
C28_InFlightWithinQuota ==
  [][\A r \in Reqs :
       (Sends(r) /\ now < rateLimit.reset /\ rateLimit.remaining > 0)
         => Cardinality(InFlight) < rateLimit.remaining]_vars

\* C29: when handleRateLimiting has waited for the reset deadline with
\* rateLimit.remaining at 0, the request that follows is sent with
\* rateLimit.remaining back at rateLimit.limit.
C29_RemainingResetAfterWait ==
  [][\A r \in Reqs :
       (req[r].pc = "rlWait" /\ rateLimit.remaining = 0 /\ Sends(r))
         => rateLimit'.remaining = rateLimit'.limit]_vars

\* What rateLimit.remaining is known to be once the headers of a response were
\* read: the value of X-Ratelimit-Remaining, or the value held before.
KnownRemaining == {rateLimit.remaining} \cup (HeaderRemaining \ {NaN})

\* C30: a response that is neither a 429 nor an HTTP error takes 1 from
\* rateLimit.remaining when that is positive; a 429, an HTTP error and a
\* transport error take nothing.
C30_DecrementOnlyOnSuccess ==
  [][\A r \in Reqs :
       /\ (req[r].pc = "fetching" /\ req'[r].pc = "returned")
            => \E known \in KnownRemaining :
                 rateLimit'.remaining = IF known > 0 THEN known - 1 ELSE known
       /\ (req[r].pc = "fetching" /\ req'[r].pc \in {"wait429", "backoff", "threw"})
            => rateLimit'.remaining \in KnownRemaining]_vars

\* A response without quota headers has taken 1 from the initial quota.
C30_Witness ==
  /\ \E r \in Reqs : req[r].pc = "returned"
  /\ rateLimit.remaining = DEFAULT_LIMIT - 1

\* C31: updateRateLimit overwrites limit, remaining and reset only for the
\* header fields that parse as integers; a field whose header is absent or does
\* not parse keeps its value, and with no parseable header the quota state is
\* left as it was.
C31_OnlyParsedFieldsOverwritten ==
  (calc.fn = "updateRateLimit" /\ calc.done) =>
    LET rl == calc.rateLimit
        h == calc.headers
    IN  /\ calc.out.limit = IF isNaN(h.limit) THEN rl.limit ELSE h.limit
        /\ calc.out.remaining = IF isNaN(h.remaining) THEN rl.remaining ELSE h.remaining
        /\ calc.out.reset = IF isNaN(h.reset) THEN rl.reset ELSE now + h.reset * 1000
        /\ (isNaN(h.limit) /\ isNaN(h.remaining) /\ isNaN(h.reset)) => calc.out = rl

\* Only X-Ratelimit-Limit was sent: limit is overwritten, remaining and reset
\* are those of before.
C31_Witness ==
  /\ calc.fn = "updateRateLimit" /\ calc.done
  /\ calc.headers.limit = 500 /\ isNaN(calc.headers.remaining) /\ isNaN(calc.headers.reset)
  /\ calc.rateLimit.limit = DEFAULT_LIMIT
  /\ calc.out = [calc.rateLimit EXCEPT !.limit = 500]

\* The seconds a Retry-After header asks for: its number, or the time left
\* until its date.
RetryAfterSeconds(v) == IF v = HTTP_DATE THEN 2 ELSE v

\* C32: on a 429 the wait before the retry is the Retry-After value of the
\* server when that header is present, otherwise the X-Ratelimit-Reset value
\* when it parses as an integer, otherwise delayMs.
C32_WaitAfter429 ==
  (calc.fn = "fetchWithRetry" /\ calc.done) =>
    LET h == calc.headers
    IN  calc.out = IF h.retryAfter # NaN THEN RetryAfterSeconds(h.retryAfter) * 1000
                   ELSE IF ~isNaN(h.reset) THEN h.reset * 1000 ELSE delayMs

\* C33: after the k-th failed attempt with an error that is not a 429
\* (k = 1, 2, ... below the cap) fetchWithRetry waits delayMs * 2^(k-1) before
\* the next attempt.
C33_BackoffDoubles ==
  [][\A r \in Reqs :
       (req[r].pc = "fetching" /\ req'[r].pc = "backoff")
         => req'[r].wake - now = delayMs * 2 ^ req[r].attempt]_vars

\* =========================================================================
\* The request path while the server sends no quota headers: the quota state
\* changes by the local decrement only.  The calls start with whatever
\* rateLimit.remaining earlier responses have left.
\* =========================================================================
NoQuotaHeaders == [limit |-> NaN, remaining |-> NaN, reset |-> NaN, retryAfter |-> NaN]

QuietInit ==
  /\ isUpdating = FALSE
  /\ cached = FALSE
  /\ store = [t \in Tokens |->
               [totalSupply |-> InitialSupply(t), kingOfTheHill |-> 0,
                ammInfo |-> FALSE]]
  /\ cyc = [c \in Slots |-> FreshCyc]
  /\ tok = [c \in Slots |-> [t \in Tokens |-> FreshTok]]
  /\ limiterRunning = 0
  /\ mainPc = "loop"
  /\ rateLimit \in [limit : {DEFAULT_LIMIT}, remaining : {0, 1, DEFAULT_LIMIT},
                    reset : {DEFAULT_RESET_MS}]
  /\ now = 0
  /\ req = [r \in Reqs |-> FreshReq]
  /\ job = [j \in Jobs |-> "idle"]
  /\ limiter = [reservoir |-> DEFAULT_LIMIT, reservoirRefreshAmount |-> DEFAULT_LIMIT]
  /\ CalcIdle
  /\ PoolIdle

QuietNext ==
  \/ \E r \in Reqs : FetchStart(r)
  \/ \E r \in Reqs : RateLimitWake(r)
  \/ \E r \in Reqs, st \in Statuses : Response(r, st, NoQuotaHeaders)
  \/ \E r \in Reqs : FetchError(r)
  \/ \E r \in Reqs : RetryWake(r)
  \/ \E r \in Reqs : BackoffWake(r)
  \/ ReservoirRefresh
  \/ Advance

QuietSpec == QuietInit /\ [][QuietNext]_vars

\* The step is a successful response of some call.
Succeeds == \E r \in Reqs : req[r].pc = "fetching" /\ req'[r].pc = "returned"

\* C34: under any interleaving of concurrent requests sharing the quota state
\* no decrement is lost: without quota headers every successful response takes
\* exactly 1 from rateLimit.remaining, down to 0, and no other step changes it,
\* so that after k of them it is max(0, r0 - k).
C34_NoLostDecrement ==
  [][rateLimit'.remaining =
       IF Succeeds THEN (IF rateLimit.remaining - 1 > 0 THEN rateLimit.remaining - 1 ELSE 0)
       ELSE rateLimit.remaining]_vars

\* Two calls have both returned and each has taken 1 from the initial quota.
C34_Witness ==
  /\ \A r \in Reqs : req[r].pc = "returned"
  /\ rateLimit.remaining = DEFAULT_LIMIT - MaxReqs

\* C35: kingOfTheHill is in the field set written for a token only in the cycle
\* that newly sets it; when the snapshot of the token already carries
\* kingOfTheHill the write has no kingOfTheHill field.
C35_KothWrittenOnlyWhenNew ==
  \A c \in Slots, t \in Tokens :
    tok[c][t].pc = "writing" =>
      /\ tok[c][t].koth \in {"new", "absent"}
      /\ cyc[c].snap[t].kingOfTheHill # 0 => tok[c][t].koth = "absent"

\* =========================================================================
\* processTokens of part_000 on its own: the shared queue and the 50 workers.
\* A call of processToken is one pending promise, which settles at some later
\* moment (processToken catches its errors and never rejects).  The promises of
\* the first FreeWorkers workers settle in any order; those of the other
\* workers settle in the order of the workers.
\* =========================================================================
QueueSizes == {2, 50, 53}
FreeWorkers == 3
Workers == 1..concurrency

FreshQueue(n) ==
  [ pc |-> "idle",                    \* idle | running | resolved
    tokens |-> n,                     \* tokens.length
    queue |-> << >>,                  \* const queue = [...tokens]
    worker |-> [w \in Workers |-> 0], \* the token whose processToken worker w awaits
                                      \* (0: the worker has not started or has ended)
    taken |-> [t \in 1..n |-> 0],     \* how often the token came out of queue.shift()
    processed |-> [t \in 1..n |-> 0] ]  \* how often processToken(token) has settled

QueueInit ==
  /\ isUpdating = FALSE
  /\ cached = FALSE
  /\ store = [t \in Tokens |->
               [totalSupply |-> InitialSupply(t), kingOfTheHill |-> 0,
                ammInfo |-> FALSE]]
  /\ cyc = [c \in Slots |-> FreshCyc]
  /\ tok = [c \in Slots |-> [t \in Tokens |-> FreshTok]]
  /\ limiterRunning = 0
  /\ mainPc = "loop"
  /\ FetchIdle
  /\ CalcIdle
  /\ workq \in {FreshQueue(n) : n \in QueueSizes}
  /\ batchq = [pc |-> "none"]
  /\ conn = [pc |-> "none"]

\* Mutant of shift: the first element is read and left in the queue.
shiftKeep(queue) == queue

\* queue.shift(): what is left of the queue.
shift(queue) == Tail(queue)

\* The loop of worker w from its condition on: while (queue.length > 0) the
\* first token is taken and processToken(token) awaited; else the worker ends.
workerLoop(q, w) ==
  IF Len(q.queue) > 0
  THEN LET token == Head(q.queue)
       IN  [q EXCEPT !.queue = shift(@), !.worker[w] = token, !.taken[token] = @ + 1]
  ELSE [q EXCEPT !.worker[w] = 0]

\* for (let i = 0; i < concurrency; i++) promises.push(worker()): the workers
\* are started one after the other, each up to its first await, so worker i
\* takes the i-th token of the queue and a worker that finds it empty ends.
StartWorkers(q) ==
  LET k == Min(concurrency, Len(q.queue))
  IN  [q EXCEPT !.queue = SubSeq(@, k + 1, Len(@)),
                !.worker = [w \in Workers |-> IF w <= k THEN q.queue[w] ELSE 0],
                !.taken = [t \in DOMAIN @ |->
                             @[t] + Cardinality({w \in 1..k : q.queue[w] = t})]]

\* await Promise.all(promises): resolved once every worker has ended.
AllSettled(q) == IF \A w \in Workers : q.worker[w] = 0 THEN [q EXCEPT !.pc = "resolved"] ELSE q

\* processTokens(tokens, collection) is called.
ProcessTokensCall ==
  /\ workq.pc = "idle"
  /\ workq' = AllSettled(StartWorkers([workq EXCEPT !.pc = "running",
                                                    !.queue = [i \in 1..workq.tokens |-> i]]))
  /\ UNCHANGED << batchq, conn >>
  /\ UNCHANGED << updaterVars, fetchVars, calcVars >>

\* The promises that may settle next.
MayResume(w) ==
  w <= FreeWorkers \/ \A v \in (FreeWorkers + 1)..(w - 1) : workq.worker[v] = 0

\* processToken(token) of worker w settles: the worker goes round its loop.
WorkerResumes(w) ==
  /\ workq.pc = "running"
  /\ workq.worker[w] # 0
  /\ MayResume(w)
  /\ workq' = AllSettled(workerLoop([workq EXCEPT !.processed[workq.worker[w]] = @ + 1], w))
  /\ UNCHANGED << batchq, conn >>
  /\ UNCHANGED << updaterVars, fetchVars, calcVars >>

QueueNext ==
  \/ ProcessTokensCall
  \/ \E w \in Workers : WorkerResumes(w)

QueueSpec == QueueInit /\ [][QueueNext]_vars

\* The tokens whose processToken is pending.
InProcess == {t \in 1..workq.tokens : workq.taken[t] > workq.processed[t]}

\* C36: in processTokens (work queue) every token of the cycle is taken from
\* the queue by exactly one worker and processed exactly once, at most 50
\* tokens are being processed at any time, and processTokens completes only
\* after every token has been processed.
C36_EachTokenOnceWithin50 ==
  workq.pc \in {"running", "resolved"} =>
    LET busy == {w \in Workers : workq.worker[w] # 0}
        held == {workq.worker[w] : w \in busy}
        queued == {workq.queue[i] : i \in 1..Len(workq.queue)}
        pending == InProcess
    IN  /\ \A t \in 1..workq.tokens :
             /\ workq.taken[t] <= 1
             /\ workq.processed[t] <= workq.taken[t]
             /\ workq.taken[t] = 0 <=> t \in queued
        /\ Cardinality(held) = Cardinality(busy)
        /\ held = pending
        /\ Cardinality(pending) <= 50
        /\ workq.pc = "resolved" => \A t \in 1..workq.tokens : workq.processed[t] = 1

\* 50 tokens are being processed, one of them taken by a worker that had
\* finished another, and a token is still in the queue.
C36_Witness ==
  /\ workq.pc = "running"
  /\ Cardinality(InProcess) = 50
  /\ Len(workq.queue) > 0
  /\ \E t \in 1..workq.tokens : workq.processed[t] = 1

\* =========================================================================
\* processTokens of part_001 on its own: the loop over slices of
\* MAX_CONNECTIONS tokens.  A call of processToken is one pending promise, which
\* settles at some later moment (processToken catches its errors).
\* =========================================================================
BatchSizes == {3, 5, 10, 11}

FreshBatches(n) ==
  [ pc |-> "idle",               \* idle | batch | pause | resolved
    tokens |-> n,                \* tokens.length
    i |-> 0,                     \* the loop variable
    st |-> [t \in 1..n |-> "none"],       \* none | pending | settled
    batchOf |-> [t \in 1..n |-> << >>],   \* the values of i at which processToken(t) was called
    pauses |-> {} ]              \* the values of i at which the loop has paused

SliceInit ==
  /\ isUpdating = FALSE
  /\ cached = FALSE
  /\ store = [t \in Tokens |->
               [totalSupply |-> InitialSupply(t), kingOfTheHill |-> 0,
                ammInfo |-> FALSE]]
  /\ cyc = [c \in Slots |-> FreshCyc]
  /\ tok = [c \in Slots |-> [t \in Tokens |-> FreshTok]]
  /\ limiterRunning = 0
  /\ mainPc = "loop"
  /\ FetchIdle
  /\ CalcIdle
  /\ workq = [pc |-> "none"]
  /\ batchq \in {FreshBatches(n) : n \in BatchSizes}
  /\ conn = [pc |-> "none"]

\* tokens.slice(i, i + batchSize), as positions in tokens.
slice(n, i) == {t \in 1..n : i < t /\ t <= i + MAX_CONNECTIONS}

\* The loop from its condition on: i < tokens.length, then
\* Promise.all(batch.map(token => processToken(token, collection))).
BatchLoop(q) ==
  IF q.i < q.tokens
  THEN [q EXCEPT !.pc = "batch",
                 !.st = [t \in DOMAIN @ |-> IF t \in slice(q.tokens, q.i) THEN "pending" ELSE @[t]],
                 !.batchOf = [t \in DOMAIN @ |->
                                IF t \in slice(q.tokens, q.i) THEN Append(@[t], q.i) ELSE @[t]]]
  ELSE [q EXCEPT !.pc = "resolved"]

\* Mutant of NeedsPause: the loop pauses after every batch.
NeedsPauseAlways(i, n) == TRUE

\* if (i + batchSize < tokens.length)
NeedsPause(i, n) == i + MAX_CONNECTIONS < n

\* processTokens(tokens, collection) is called.
BatchTokensCall ==
  /\ batchq.pc = "idle"
  /\ batchq' = BatchLoop(batchq)
  /\ UNCHANGED << workq, conn >>
  /\ UNCHANGED << updaterVars, fetchVars, calcVars >>

\* processToken(t) settles; with the last one of the batch Promise.all resolves
\* and the loop pauses or goes on (i += batchSize).
BatchTokenSettles(t) ==
  /\ batchq.pc = "batch"
  /\ batchq.st[t] = "pending"
  /\ LET q == [batchq EXCEPT !.st[t] = "settled"]
     IN  batchq' =
           IF \E u \in slice(q.tokens, q.i) : q.st[u] = "pending" THEN q
           ELSE IF NeedsPause(q.i, q.tokens)
           THEN [q EXCEPT !.pc = "pause", !.pauses = @ \cup {q.i}]
           ELSE BatchLoop([q EXCEPT !.i = @ + MAX_CONNECTIONS])
  /\ UNCHANGED << workq, conn >>
  /\ UNCHANGED << updaterVars, fetchVars, calcVars >>

\* The setTimeout(resolve, MESSAGE_INTERVAL * batchSize) of the pause fires.
BatchPauseOver ==
  /\ batchq.pc = "pause"
  /\ batchq' = BatchLoop([batchq EXCEPT !.i = @ + MAX_CONNECTIONS])
  /\ UNCHANGED << workq, conn >>
  /\ UNCHANGED << updaterVars, fetchVars, calcVars >>

SliceNext ==
  \/ BatchTokensCall
  \/ \E t \in 1..batchq.tokens : BatchTokenSettles(t)
  \/ BatchPauseOver

SliceSpec == SliceInit /\ [][SliceNext]_vars

\* The batch of the token at position t: batches are numbered from 0.
BatchNumber(t) == (t - 1) \div MAX_CONNECTIONS

\* C37: in processTokens (fixed batches) every token belongs to exactly one
\* batch of at most MAX_CONNECTIONS tokens, no token of batch i+1 starts before
\* every token of batch i has finished, and the loop pauses between consecutive
\* batches but not after the last one.
C37_BatchesInSequenceWithPauses ==
  batchq.pc \in {"batch", "pause", "resolved"} =>
    LET n == batchq.tokens
        started == {t \in 1..n : batchq.st[t] # "none"}
        last == (n - 1) \div MAX_CONNECTIONS
    IN  /\ \A t \in 1..n : Len(batchq.batchOf[t]) <= 1
        /\ \A t \in started : batchq.batchOf[t] = << BatchNumber(t) * MAX_CONNECTIONS >>
        /\ \A i \in 0..n :
             Cardinality({t \in started : batchq.batchOf[t] = << i >>}) <= MAX_CONNECTIONS
        /\ \A t \in started, u \in 1..n :
             BatchNumber(u) < BatchNumber(t) => batchq.st[u] = "settled"
        /\ \A t \in started :
             BatchNumber(t) > 0 => (BatchNumber(t) - 1) * MAX_CONNECTIONS \in batchq.pauses
        /\ \A i \in batchq.pauses : i \div MAX_CONNECTIONS < last
        /\ batchq.pc = "resolved" =>
             /\ started = 1..n
             /\ \A t \in 1..n : batchq.st[t] = "settled"

\* Eleven tokens went through three batches with a pause after the first and
\* after the second.
C37_Witness ==
  /\ batchq.pc = "resolved"
  /\ batchq.tokens = 11
  /\ batchq.pauses = {0, MAX_CONNECTIONS}

\* C38: in the fixed-batch AMM updater the 1-hour, 24-hour and 7-day price
\* changes stored for a token are each computed against the price at the start
\* of their own window: the oldest price with timestamp >= now - h hours.
C38_ChangePerWindow ==
  (calc.fn = "processTokenBatch" /\ calc.done) =>
    LET prices == Append(calc.priceHistory,
                         [timestamp |-> clock, spotPrice |-> calc.spotPrice])
    IN  \A h \in Windows : calc.out[h] = SpecPriceChange(prices, h, clock)

\* C39: for all positive reserves the token side valued in XRP equals the XRP
\* reserve (shares of 50 and 50 percent, imbalance 0 in exact arithmetic), and
\* the stored pool health is "Excellent" whatever the reserves are.
C39_PoolAlwaysExcellent ==
  (calc.fn = "processTokenPool" /\ calc.done) => calc.out.health = "Excellent"

\* ---------------------------------------------------------------------------
\* updateData.js: connectToDatabase and its callers.  fetchTokens and
\* updatePricesAndMarketCaps are both exported and both await
\* connectToDatabase(); a caller here is one running call of either.  A client
\* is named by the number of the connect that made it, and client.db(DB_NAME)
\* of client k is the handle k.
\* ---------------------------------------------------------------------------
MaxCallers == 3
MaxConnects == 4
Callers == 1..MaxCallers

FreshCall == [pc |-> "idle", client |-> 0, db |-> 0]

ConnInit ==
  /\ isUpdating = FALSE
  /\ cached = FALSE
  /\ store = [t \in Tokens |->
               [totalSupply |-> InitialSupply(t), kingOfTheHill |-> 0,
                ammInfo |-> FALSE]]
  /\ cyc = [c \in Slots |-> FreshCyc]
  /\ tok = [c \in Slots |-> [t \in Tokens |-> FreshTok]]
  /\ limiterRunning = 0
  /\ mainPc = "loop"
  /\ FetchIdle
  /\ CalcIdle
  /\ workq = [pc |-> "none"]
  /\ batchq = [pc |-> "none"]
  /\ conn = [pc |-> "run", cachedClient |-> 0, cachedDb |-> 0,
             connects |-> 0, opened |-> 0,
             call |-> [c \in Callers |-> FreshCall]]

\* The synchronous head of connectToDatabase: with both cached values set the
\* call returns them; otherwise it starts MongoClient.connect and suspends.
connectToDatabase(cn, c) ==
  IF cn.cachedClient # 0 /\ cn.cachedDb # 0
  THEN [cn EXCEPT !.call[c] = [pc |-> "returned", client |-> cn.cachedClient,
                               db |-> cn.cachedDb]]
  ELSE [cn EXCEPT !.call[c] = [pc |-> "connecting", client |-> 0, db |-> 0],
                  !.connects = @ + 1]

\* fetchTokens or updatePricesAndMarketCaps reaches await connectToDatabase().
ConnCall(c) ==
  /\ conn.pc = "run"
  /\ conn.call[c].pc = "idle"
  /\ (conn.cachedClient = 0 \/ conn.cachedDb = 0) => conn.connects < MaxConnects
  /\ conn' = connectToDatabase(conn, c)
  /\ UNCHANGED << workq, batchq >>
  /\ UNCHANGED << updaterVars, fetchVars, calcVars >>

\* MongoClient.connect resolves for caller c: a new client is open, it and its
\* db handle are stored in the cache and returned.
ConnResolve(c) ==
  /\ conn.pc = "run"
  /\ conn.call[c].pc = "connecting"
  /\ LET client == conn.opened + 1
         db == client
     IN  conn' = [conn EXCEPT !.opened = client,
                              !.cachedClient = client,
                              !.cachedDb = db,
                              !.call[c] = [pc |-> "returned", client |-> client,
                                           db |-> db]]
  /\ UNCHANGED << workq, batchq >>
  /\ UNCHANGED << updaterVars, fetchVars, calcVars >>

\* MongoClient.connect rejects: the call throws and the cache is left alone.
ConnReject(c) ==
  /\ conn.pc = "run"
  /\ conn.call[c].pc = "connecting"
  /\ conn' = [conn EXCEPT !.call[c].pc = "threw"]
  /\ UNCHANGED << workq, batchq >>
  /\ UNCHANGED << updaterVars, fetchVars, calcVars >>

\* The caller's function finishes; a later request or timer tick calls again.
ConnCallerEnds(c) ==
  /\ conn.pc = "run"
  /\ conn.call[c].pc \in {"returned", "threw"}
  /\ conn' = [conn EXCEPT !.call[c].pc = "idle"]
  /\ UNCHANGED << workq, batchq >>
  /\ UNCHANGED << updaterVars, fetchVars, calcVars >>

ConnNext ==
  \/ \E c \in Callers : ConnCall(c)
  \/ \E c \in Callers : ConnResolve(c)
  \/ \E c \in Callers : ConnReject(c)
  \/ \E c \in Callers : ConnCallerEnds(c)

ConnSpec == ConnInit /\ [][ConnNext]_vars

\* C40: whatever the interleaving of the calls of connectToDatabase, at most
\* one store connection is ever opened, and all callers that received a client
\* and a database handle received the same ones.
C40_OneConnectionForAll ==
  conn.pc = "run" =>
    /\ conn.opened <= 1
    /\ \A c, d \in Callers :
         (conn.call[c].client # 0 /\ conn.call[d].client # 0) =>
           /\ conn.call[c].client = conn.call[d].client
           /\ conn.call[c].db = conn.call[d].db

====
